---- MODULE Spec2Model ----
(***************************************************************************)
(* The cube state engine (CubeModel, src/static/js/cube3d.js) and the      *)
(* layer solver (CubeSolverJS, src/static/js/solver_logic.js) of GoCubes.  *)
(*                                                                         *)
(* A cube state is a record of six faces, each a function from the         *)
(* source's facelet indices 0..8 to a colour code.  An algorithm is a      *)
(* JavaScript string, modelled as the sequence of its characters, so that  *)
(* split(' '), move[0].toUpperCase() and includes() are computed as the    *)
(* code computes them.  A move token of the log is such a sequence too.    *)
(***************************************************************************)
EXTENDS Integers, Sequences, FiniteSets, TLC

VARIABLES
    jsCube,     \* CubeModel.state of the page's model (solver.js:13)
    before,     \* jsCube at the start of the current run of equal operations
    lastOp,     \* the operation of the current run: [kind, arg]
    reps,       \* how many times lastOp was applied in a row since `before`
    input,      \* the caller's cube state when the solvers were built
    heap,       \* state objects by reference: 0 the caller's, i solver i's own
    solvers,    \* the CubeSolverJS instances: fields and position in solve()
    solvedTemplate,  \* the object jsCube.solvedState holds
    stateRef,        \* the object jsCube.state refers to: its own or the template
    cubeState,       \* the page's cubeState (solver.js:5)
    currentSolution, \* the page's currentSolution (solver.js:19)
    page,            \* what solveCube has shown and asked for
    simp,            \* a call of simplifyMoves and a call on its result
    worker,          \* the solver worker: position in onmessage, messages posted
    player           \* the solution player: isPlaying, currentMoveIndex, animations

engineVars == <<jsCube, before, lastOp, reps, solvedTemplate, stateRef>>
solverVars == <<input, heap, solvers>>
callerVars == <<cubeState, currentSolution, page, simp, worker, player>>
vars == <<jsCube, before, lastOp, reps, input, heap, solvers, solvedTemplate,
          stateRef, cubeState, currentSolution, page, simp, worker, player>>

---------------------------------------------------------------------------
(* Bounds of the model *)

\* tokens of a scramble that produces an input state
MaxScramble == 1
\* tokens of an algorithm handed to executeAlgorithm in the engine runs
MaxAlgLen == 2
\* applications of one operation in a row that the engine runs follow
MaxReps == 6
\* length up to which the model follows a solver's move log
LogCapacity == 110

---------------------------------------------------------------------------
(* Characters and strings *)

FaceNames == {"up", "down", "front", "back", "left", "right"}
FaceLetters == {"U", "D", "L", "R", "F", "B"}
Colors == {"W", "Y", "R", "O", "G", "B"}
Idx == 0..8

\* String.prototype.toUpperCase on one character
toUpperCase(c) ==
    CASE c = "u" -> "U" [] c = "d" -> "D" [] c = "l" -> "L"
      [] c = "r" -> "R" [] c = "f" -> "F" [] c = "b" -> "B"
      [] c = "y" -> "Y" [] c = "x" -> "X"
      [] OTHER -> c

\* String.prototype.includes for one character
includes(str, c) == \E k \in 1..Len(str) : str[k] = c

\* the pieces of str[lo..hi] between single spaces, empty pieces kept; the
\* halves are split apart and the piece that spans the middle is put together
RECURSIVE splitRange(_, _, _)
splitRange(str, lo, hi) ==
    IF lo > hi THEN << <<>> >>
    ELSE IF lo = hi THEN (IF str[lo] = " " THEN << <<>>, <<>> >> ELSE << <<str[lo]>> >>)
    ELSE LET mid == (lo + hi) \div 2
             l == splitRange(str, lo, mid)
             r == splitRange(str, mid + 1, hi)
         IN  SubSeq(l, 1, Len(l) - 1) \o << l[Len(l)] \o r[1] >> \o Tail(r)

\* str.split(' ')
split(str) == splitRange(str, 1, Len(str))

\* .filter(m => m): the empty string is falsy
filterNonEmpty(pieces) == SelectSeq(pieces, LAMBDA m : m # <<>>)

\* algorithm.split(' ').filter(m => m)
splitMoves(str) == filterNonEmpty(split(str))

RECURSIVE joinRange(_, _, _)
joinRange(toks, lo, hi) ==
    IF lo > hi THEN <<>>
    ELSE IF lo = hi THEN toks[lo]
    ELSE LET mid == (lo + hi) \div 2
         IN  joinRange(toks, lo, mid) \o <<" ">> \o joinRange(toks, mid + 1, hi)

\* Array.prototype.join(' ')
join(toks) == joinRange(toks, 1, Len(toks))

---------------------------------------------------------------------------
(* CubeModel *)

\* a face array: nine entries at the indices 0..8
array9(t) ==
    0 :> t[1] @@ 1 :> t[2] @@ 2 :> t[3] @@ 3 :> t[4] @@ 4 :> t[5] @@
    5 :> t[6] @@ 6 :> t[7] @@ 7 :> t[8] @@ 8 :> t[9]

\* Array(9).fill(c)
face9(c) == array9(<<c, c, c, c, c, c, c, c, c>>)

solvedState ==
    [up |-> face9("W"), down |-> face9("Y"), front |-> face9("R"),
     back |-> face9("O"), left |-> face9("G"), right |-> face9("B")]

cwMapping == <<2, 5, 8, 1, 4, 7, 0, 3, 6>>
ccwMapping == <<6, 3, 0, 7, 4, 1, 8, 5, 2>>

permutedCentreMoved(temp, mapping) ==
    array9(<<temp[mapping[1]], temp[mapping[2]], temp[mapping[3]],
             temp[mapping[4]], temp[mapping[6]], temp[mapping[5]],
             temp[mapping[7]], temp[mapping[8]], temp[mapping[9]]>>)

\* the loop of _rotateFace: faceState[i] = temp[mapping[i]] for i = 0..8
\* (mapping is a tuple here, so the code's mapping[i] is mapping[i + 1])
permuted(temp, mapping) ==
    array9(<<temp[mapping[1]], temp[mapping[2]], temp[mapping[3]],
             temp[mapping[4]], temp[mapping[5]], temp[mapping[6]],
             temp[mapping[7]], temp[mapping[8]], temp[mapping[9]]>>)

rotateFaceTransposed(s, face, clockwise) ==
    [s EXCEPT ![face] = permuted(s[face], <<0, 3, 6, 1, 4, 7, 2, 5, 8>>)]

\* _rotateFace(face, clockwise = true)
rotateFace(s, face, clockwise) ==
    [s EXCEPT ![face] = permuted(s[face], IF clockwise THEN cwMapping ELSE ccwMapping)]

\* _performMove, case 'F'
turnF(s) ==
    LET r == rotateFace(s, "front", TRUE)
    IN  [r EXCEPT
          !.up    = [@ EXCEPT ![6] = s.left[8],  ![7] = s.left[5],  ![8] = s.left[2]],
          !.left  = [@ EXCEPT ![2] = s.down[0],  ![5] = s.down[1],  ![8] = s.down[2]],
          !.down  = [@ EXCEPT ![0] = s.right[6], ![1] = s.right[3], ![2] = s.right[0]],
          !.right = [@ EXCEPT ![0] = s.up[6],    ![3] = s.up[7],    ![6] = s.up[8]]]

\* _performMove, case 'B'
turnB(s) ==
    LET r == rotateFace(s, "back", TRUE)
    IN  [r EXCEPT
          !.up    = [@ EXCEPT ![0] = s.right[2], ![1] = s.right[5], ![2] = s.right[8]],
          !.right = [@ EXCEPT ![2] = s.down[8],  ![5] = s.down[7],  ![8] = s.down[6]],
          !.down  = [@ EXCEPT ![6] = s.left[0],  ![7] = s.left[3],  ![8] = s.left[6]],
          !.left  = [@ EXCEPT ![0] = s.up[2],    ![3] = s.up[1],    ![6] = s.up[0]]]

turnUWithoutTemp(s) ==
    LET r == rotateFace(s, "up", TRUE)
    IN  [r EXCEPT
          !.front = [@ EXCEPT ![0] = s.right[0], ![1] = s.right[1], ![2] = s.right[2]],
          !.right = [@ EXCEPT ![0] = s.back[0],  ![1] = s.back[1],  ![2] = s.back[2]],
          !.back  = [@ EXCEPT ![0] = s.left[0],  ![1] = s.left[1],  ![2] = s.left[2]],
          !.left  = [@ EXCEPT ![0] = s.right[0], ![1] = s.right[1], ![2] = s.right[2]]]

\* _performMove, case 'U'
turnU(s) ==
    LET r == rotateFace(s, "up", TRUE)
    IN  [r EXCEPT
          !.front = [@ EXCEPT ![0] = s.right[0], ![1] = s.right[1], ![2] = s.right[2]],
          !.right = [@ EXCEPT ![0] = s.back[0],  ![1] = s.back[1],  ![2] = s.back[2]],
          !.back  = [@ EXCEPT ![0] = s.left[0],  ![1] = s.left[1],  ![2] = s.left[2]],
          !.left  = [@ EXCEPT ![0] = s.front[0], ![1] = s.front[1], ![2] = s.front[2]]]

\* _performMove, case 'D'
turnD(s) ==
    LET r == rotateFace(s, "down", TRUE)
    IN  [r EXCEPT
          !.front = [@ EXCEPT ![6] = s.left[6],  ![7] = s.left[7],  ![8] = s.left[8]],
          !.left  = [@ EXCEPT ![6] = s.back[6],  ![7] = s.back[7],  ![8] = s.back[8]],
          !.back  = [@ EXCEPT ![6] = s.right[6], ![7] = s.right[7], ![8] = s.right[8]],
          !.right = [@ EXCEPT ![6] = s.front[6], ![7] = s.front[7], ![8] = s.front[8]]]

\* a mutant's case 'L': the back face written in its other column
turnLWrongColumn(s) ==
    LET r == rotateFace(s, "left", TRUE)
    IN  [r EXCEPT
          !.up    = [@ EXCEPT ![0] = s.back[8],  ![3] = s.back[5],  ![6] = s.back[2]],
          !.back  = [@ EXCEPT ![0] = s.down[6],  ![3] = s.down[3],  ![6] = s.down[0]],
          !.down  = [@ EXCEPT ![0] = s.front[0], ![3] = s.front[3], ![6] = s.front[6]],
          !.front = [@ EXCEPT ![0] = s.up[0],    ![3] = s.up[3],    ![6] = s.up[6]]]

\* _performMove, case 'L'
turnL(s) ==
    LET r == rotateFace(s, "left", TRUE)
    IN  [r EXCEPT
          !.up    = [@ EXCEPT ![0] = s.back[8],  ![3] = s.back[5],  ![6] = s.back[2]],
          !.back  = [@ EXCEPT ![2] = s.down[6],  ![5] = s.down[3],  ![8] = s.down[0]],
          !.down  = [@ EXCEPT ![0] = s.front[0], ![3] = s.front[3], ![6] = s.front[6]],
          !.front = [@ EXCEPT ![0] = s.up[0],    ![3] = s.up[3],    ![6] = s.up[6]]]

turnRMiswired(s) ==
    LET r == rotateFace(s, "right", TRUE)
    IN  [r EXCEPT
          !.up    = [@ EXCEPT ![2] = s.front[2], ![5] = s.front[5], ![8] = s.front[8]],
          !.front = [@ EXCEPT ![2] = s.down[2],  ![5] = s.down[5],  ![8] = s.down[8]],
          !.down  = [@ EXCEPT ![2] = s.back[6],  ![5] = s.back[3],  ![8] = s.back[0]],
          !.back  = [@ EXCEPT ![0] = s.up[2],    ![3] = s.up[5],    ![6] = s.up[8]]]

\* _performMove, case 'R'
turnR(s) ==
    LET r == rotateFace(s, "right", TRUE)
    IN  [r EXCEPT
          !.up    = [@ EXCEPT ![2] = s.front[2], ![5] = s.front[5], ![8] = s.front[8]],
          !.front = [@ EXCEPT ![2] = s.down[2],  ![5] = s.down[5],  ![8] = s.down[8]],
          !.down  = [@ EXCEPT ![2] = s.back[6],  ![5] = s.back[3],  ![8] = s.back[0]],
          !.back  = [@ EXCEPT ![0] = s.up[8],    ![3] = s.up[5],    ![6] = s.up[2]]]

performMoveUnknownAsU(s, face) ==
    CASE face = "F" -> turnF(s)
      [] face = "B" -> turnB(s)
      [] face = "D" -> turnD(s)
      [] face = "L" -> turnL(s)
      [] face = "R" -> turnR(s)
      [] OTHER -> turnU(s)

\* _performMove: one clockwise quarter turn; a face the switch does not name
\* (such as 'Y') matches no case and changes nothing
performMove(s, face) ==
    CASE face = "F" -> turnF(s)
      [] face = "B" -> turnB(s)
      [] face = "U" -> turnU(s)
      [] face = "D" -> turnD(s)
      [] face = "L" -> turnL(s)
      [] face = "R" -> turnR(s)
      [] OTHER -> s

RECURSIVE performMoveTimes(_, _, _)
performMoveTimes(s, face, n) ==
    IF n = 0 THEN s ELSE performMoveTimes(performMove(s, face), face, n - 1)

movePrimeAsOne(s, face, prime, double) ==
    performMoveTimes(s, face, IF double THEN 2 ELSE 1)

\* _move: cycles = double ? 2 : (prime ? 3 : 1)
move(s, face, prime, double) ==
    performMoveTimes(s, face, IF double THEN 2 ELSE (IF prime THEN 3 ELSE 1))

\* the body of executeAlgorithm's forEach for one token
applyToken(s, tok) ==
    move(s, toUpperCase(tok[1]), includes(tok, "'"), includes(tok, "2"))

\* moves.forEach over moves[lo..hi], in order
RECURSIVE applyRange(_, _, _, _)
applyRange(s, toks, lo, hi) ==
    IF lo > hi THEN s
    ELSE IF lo = hi THEN applyToken(s, toks[lo])
    ELSE LET mid == (lo + hi) \div 2
             half == applyRange(s, toks, lo, mid)
         IN  \* comparing half makes TLC evaluate it here rather than
             \* inside the innermost turn of the second half
             IF half = half THEN applyRange(half, toks, mid + 1, hi) ELSE half

applyTokens(s, toks) == applyRange(s, toks, 1, Len(toks))

\* executeAlgorithm(algorithm)
executeAlgorithm(s, algorithm) == applyTokens(s, splitMoves(algorithm))

---------------------------------------------------------------------------
(* Algorithms as strings *)

Suffixes == {<<>>, <<"'">>, <<"2">>}

\* the move grammar: a face letter, optionally followed by ' or 2
MoveTokens == {<<f>> \o x : f \in FaceLetters, x \in Suffixes}

RECURSIVE TokenSeqs(_)
TokenSeqs(n) ==
    IF n = 0 THEN {<<>>}
    ELSE LET shorter == TokenSeqs(n - 1)
         IN  shorter \cup {Append(ts, t) : ts \in {x \in shorter : Len(x) = n - 1},
                                           t \in MoveTokens}

\* every algorithm of at most n tokens of the grammar, as a string
AlgsUpTo(n) == {join(ts) : ts \in TokenSeqs(n)}

SexyMove == <<"R", " ", "U", " ", "R", "'", " ", "U", "'">>

\* the algorithm strings CubeSolverJS hands to execute()
AlgU == <<"U">>
AlgF2 == <<"F", "2">>
AlgY == <<"y">>
AlgInsertCorner == <<"R", "'", " ", "D", "'", " ", "R", " ", "D">>
AlgRightInsert ==
    <<"U", " ", "R", " ", "U", "'", " ", "R", "'", " ", "U", "'", " ", "F", "'", " ", "U", " ", "F">>
AlgLeftInsert ==
    <<"U", "'", " ", "L", "'", " ", "U", " ", "L", " ", "U", " ", "F", " ", "U", "'", " ", "F", "'">>
AlgYellowCross ==
    <<"F", " ", "R", " ", "U", " ", "R", "'", " ", "U", "'", " ", "F", "'">>
AlgYellowEdges ==
    <<"R", " ", "U", " ", "R", "'", " ", "U", " ", "R", " ", "U", "2", " ", "R", "'">>
AlgYellowCorners ==
    <<"U", " ", "R", " ", "U", "'", " ", "L", "'", " ", "U", " ", "R", "'", " ", "U", "'", " ", "L">>

SolverAlgs ==
    {AlgU, AlgF2, AlgY, AlgInsertCorner, AlgRightInsert, AlgLeftInsert,
     AlgYellowCross, AlgYellowEdges, AlgYellowCorners}

\* the inverse of one move: plain and ' swapped, 2 kept
inverseToken(tok) ==
    IF tok[Len(tok)] = "2" THEN tok
    ELSE IF tok[Len(tok)] = "'" THEN SubSeq(tok, 1, Len(tok) - 1)
    ELSE Append(tok, "'")

RECURSIVE reverseInverted(_)
reverseInverted(toks) ==
    IF toks = <<>> THEN <<>>
    ELSE Append(reverseInverted(Tail(toks)), inverseToken(Head(toks)))

\* the reversed-and-inverted algorithm, as a string
inverseAlgorithm(alg) == join(reverseInverted(splitMoves(alg)))

---------------------------------------------------------------------------
(* Input states *)

\* a cube whose 54 facelets all differ: a move acts on positions only, so
\* what it does to this cube it does to every cube
labelledState ==
    [up |-> array9(<<"u0", "u1", "u2", "u3", "u4", "u5", "u6", "u7", "u8">>),
     down |-> array9(<<"d0", "d1", "d2", "d3", "d4", "d5", "d6", "d7", "d8">>),
     front |-> array9(<<"f0", "f1", "f2", "f3", "f4", "f5", "f6", "f7", "f8">>),
     back |-> array9(<<"b0", "b1", "b2", "b3", "b4", "b5", "b6", "b7", "b8">>),
     left |-> array9(<<"l0", "l1", "l2", "l3", "l4", "l5", "l6", "l7", "l8">>),
     right |-> array9(<<"r0", "r1", "r2", "r3", "r4", "r5", "r6", "r7", "r8">>)]

\* states produced as generateRandomScramble does: reset(), then
\* executeAlgorithm(scramble)
ScrambledStates == {executeAlgorithm(solvedState, a) : a \in AlgsUpTo(MaxScramble)}

\* the colours of left and right exchanged: nine of each colour, centres not in
\* the canonical arrangement, as a detected or stored state can be
swapColor(c) == IF c = "G" THEN "B" ELSE IF c = "B" THEN "G" ELSE c

swapFace(t) ==
    array9(<<swapColor(t[0]), swapColor(t[1]), swapColor(t[2]),
             swapColor(t[3]), swapColor(t[4]), swapColor(t[5]),
             swapColor(t[6]), swapColor(t[7]), swapColor(t[8])>>)

swapLeftRight(s) ==
    [up |-> swapFace(s.up), down |-> swapFace(s.down), front |-> swapFace(s.front),
     back |-> swapFace(s.back), left |-> swapFace(s.left), right |-> swapFace(s.right)]

---------------------------------------------------------------------------
(* The engine on its own: runs of one operation applied repeatedly *)

NoOp == [kind |-> "none", arg |-> <<>>]

EngineStarts == {solvedState, labelledState, executeAlgorithm(solvedState, SexyMove)}

\* algorithm strings with nothing but spaces, with spaces in a row or at the
\* ends, and with tokens that name no face; kept is the string of the tokens
\* that do name one
OddAlgs ==
    { [given |-> <<>>, kept |-> <<>>],
      [given |-> <<" ">>, kept |-> <<>>],
      [given |-> <<" ", " ", " ">>, kept |-> <<>>],
      [given |-> <<"x">>, kept |-> <<>>],
      [given |-> <<"M", "2">>, kept |-> <<>>],
      [given |-> <<"2">>, kept |-> <<>>],
      [given |-> <<"y", " ", "R">>, kept |-> <<"R">>],
      [given |-> <<"R", " ", "x", " ", "U", "'">>, kept |-> <<"R", " ", "U", "'">>],
      [given |-> <<"F", "2", " ", "M", "2", " ", "L">>, kept |-> <<"F", "2", " ", "L">>],
      [given |-> <<" ", "R", " ", " ", "U", "2", " ">>, kept |-> <<"R", " ", "U", "2">>],
      [given |-> <<"'", " ", "D", "'", " ", "y", "'">>, kept |-> <<"D", "'">>] }

EngineAlgs ==
    AlgsUpTo(MaxAlgLen) \cup SolverAlgs \cup {SexyMove} \cup {odd.given : odd \in OddAlgs}

Solvers == {1, 2}

\* a CubeSolverJS that has not been constructed
NoSolver ==
    [pc |-> "absent", state |-> -1, solution |-> <<>>, result |-> <<>>,
     color |-> 1, attempts |-> 0, found |-> FALSE, slot |-> 1, i |-> 0,
     spin |-> 0, nexec |-> 0]

IdleSolvers == [i \in Solvers |-> NoSolver]

\* the page before solveCube has shown or asked for anything: the last alert
\* shown, the requests to /api/solve not yet answered, the state the last of
\* them carried, and whether the solver at work is the offline fallback's
NoPage ==
    [alert |-> "none", pending |-> 0, asked |-> <<>>, offline |-> FALSE,
     stateHistory |-> <<>>, historyIndex |-> -1]

\* no call of simplifyMoves made
NoSimp == [pc |-> "idle", moves |-> <<>>, after |-> <<>>, once |-> <<>>, twice |-> <<>>]

\* the worker before its first message
NoWorker == [pc |-> "idle", received |-> 0, message |-> "none", posted |-> <<>>]

\* the player when the page is loaded: nothing plays, no animation runs, the
\* 3D cube shows the page's cubeState, no scrambled state is stored
NoPlayer ==
    [isPlaying |-> FALSE, currentMoveIndex |-> 0, isAnimating |-> FALSE,
     inFlight |-> <<>>, animationQueue |-> <<>>,
     cubeStateForAnimation |-> solvedState,
     hasScrambled |-> FALSE, scrambledState |-> solvedState,
     lastCall |-> "none"]

\* page, simplifier calls and worker at rest, the page as the script leaves it
\* when loaded (solver.js:5-19)
IdleCallers ==
    /\ cubeState = solvedState
    /\ currentSolution = <<>>
    /\ page = NoPage
    /\ simp = NoSimp
    /\ worker = NoWorker
    /\ player = NoPlayer

\* the constructor of CubeModel: solvedState filled, then reset()
NewCubeModel ==
    /\ solvedTemplate = solvedState
    /\ stateRef = "own"

InitEngine ==
    /\ NewCubeModel
    /\ jsCube \in EngineStarts
    /\ before = jsCube
    /\ lastOp = NoOp
    /\ reps = 0
    /\ input = solvedState
    /\ heap = <<>>
    /\ solvers = IdleSolvers
    /\ IdleCallers

\* an operation either starts the first run or continues the current one
RunGuard(op) == reps = 0 \/ (lastOp = op /\ reps < MaxReps)

RunRecord(op) ==
    /\ lastOp' = op
    /\ reps' = reps + 1
    /\ before' = IF reps = 0 THEN jsCube ELSE before

OpPerformMove(face) == [kind |-> "performMove", arg |-> <<face>>]
OpExecuteAlgorithm(alg) == [kind |-> "executeAlgorithm", arg |-> alg]
OpReset == [kind |-> "reset", arg |-> <<>>]

\* _performMove writes into the object this.state refers to (const s =
\* this.state): the template changes with it when that object is the template
WriteThrough(next) ==
    /\ solvedTemplate' = IF stateRef = "template" THEN next ELSE solvedTemplate
    /\ stateRef' = stateRef

PerformMove(face) ==
    /\ RunGuard(OpPerformMove(face))
    /\ jsCube' = performMove(jsCube, face)
    /\ WriteThrough(jsCube')
    /\ RunRecord(OpPerformMove(face))
    /\ UNCHANGED <<solverVars, callerVars>>

ExecuteAlgorithm(alg) ==
    /\ RunGuard(OpExecuteAlgorithm(alg))
    /\ jsCube' = executeAlgorithm(jsCube, alg)
    /\ WriteThrough(jsCube')
    /\ RunRecord(OpExecuteAlgorithm(alg))
    /\ UNCHANGED <<solverVars, callerVars>>

resetStateRefAliased == "template"

\* reset(): JSON.parse(JSON.stringify(...)) makes an object of the state's own
resetStateRef == "own"

\* reset(): this.state = JSON.parse(JSON.stringify(this.solvedState))
Reset ==
    /\ reps > 0
    /\ jsCube' = solvedTemplate
    /\ stateRef' = resetStateRef
    /\ solvedTemplate' = solvedTemplate
    /\ before' = solvedTemplate
    /\ lastOp' = OpReset
    /\ reps' = 0
    /\ UNCHANGED <<solverVars, callerVars>>

\* the algorithms RunGuard lets through: all of them at the start of a run, the
\* run's own one afterwards
RunnableAlgs ==
    IF reps = 0 THEN EngineAlgs
    ELSE IF lastOp.kind = "executeAlgorithm" THEN {lastOp.arg} ELSE {}

NextEngine ==
    \/ \E face \in FaceLetters : PerformMove(face)
    \/ \E alg \in RunnableAlgs : ExecuteAlgorithm(alg)
    \/ Reset

SpecEngine == InitEngine /\ [][NextEngine]_vars

---------------------------------------------------------------------------
(* Claims about the engine, checked under SpecEngine *)

\* C8: for every face X and every cube state, four consecutive
\* performMove(X) return the state to its configuration before the first.
C8_FourTurnsIdentity ==
    \A X \in FaceLetters :
        (lastOp = OpPerformMove(X) /\ reps = 4) => jsCube = before

\* a state in which the fourth quarter turn of a face has just been made on the
\* cube of 54 distinct facelets, each of the first three having changed it
C8_Witness ==
    /\ lastOp = OpPerformMove("R")
    /\ reps = 4
    /\ before = labelledState
    /\ performMove(before, "R") # before

\* C9: executeAlgorithm(a) followed by executeAlgorithm of the reversed and
\* inverted algorithm returns every state to its original configuration.
C9_InverseRestores ==
    (lastOp.kind = "executeAlgorithm" /\ reps = 1) =>
        executeAlgorithm(jsCube, inverseAlgorithm(lastOp.arg)) = before

\* a two-move algorithm with a prime and a double turn has been executed on the
\* cube of 54 distinct facelets and has changed it
C9_Witness ==
    /\ lastOp = OpExecuteAlgorithm(<<"R", "'", " ", "U", "2">>)
    /\ reps = 1
    /\ before = labelledState
    /\ jsCube # before
    /\ inverseAlgorithm(lastOp.arg) = <<"U", "2", " ", "R">>

\* C10: from the solved state, R U R' U' executed six times in a row gives the
\* solved state.
C10_SexyMoveSixTimes ==
    (before = solvedState /\ lastOp = OpExecuteAlgorithm(SexyMove) /\ reps = 6) =>
        jsCube = solvedState

\* the sixth execution has just been made from the solved state, and one
\* execution alone leaves the cube unsolved
C10_Witness ==
    /\ before = solvedState
    /\ lastOp = OpExecuteAlgorithm(SexyMove)
    /\ reps = 6
    /\ executeAlgorithm(solvedState, SexyMove) # solvedState

---------------------------------------------------------------------------
(* CubeSolverJS *)

CallerRef == 0

constructorStateRefShared(i) == CallerRef

\* constructor: this.cube.state = JSON.parse(JSON.stringify(cubeModel.state)),
\* a state object of the instance's own
constructorStateRef(i) == i

isSolvedCanonical(s) == s = solvedState

\* isSolved(): every facelet of every face equals that face's centre
\* a mutant's isSolved: the up face alone is looked at
isSolvedUpOnly(s) == \A k \in DOMAIN s.up : s.up[k] = s.up[4]

isSolved(s) == \A f \in DOMAIN s : \A k \in DOMAIN s[f] : s[f][k] = s[f][4]

executeLogOnly(w, moves) ==
    [state |-> w.state, solution |-> w.solution \o splitMoves(moves)]

\* execute(moves) on the pair (working state, move log)
execute(w, moves) ==
    [state |-> executeAlgorithm(w.state, moves),
     solution |-> w.solution \o splitMoves(moves)]

\* solveWhiteCross: the side colours in the order of Object.entries(centers)
crossColors == <<"R", "B", "O", "G">>
crossAttempts == 20

\* solveWhiteCross: the twelve edge positions, pos and pair
crossEdges ==
    <<  <<"up", 1, "back", 1>>,    <<"up", 3, "left", 1>>,
        <<"up", 5, "right", 1>>,   <<"up", 7, "front", 1>>,
        <<"down", 1, "front", 7>>, <<"down", 3, "left", 7>>,
        <<"down", 5, "right", 7>>, <<"down", 7, "back", 7>>,
        <<"front", 3, "left", 5>>, <<"front", 5, "right", 3>>,
        <<"back", 3, "right", 5>>, <<"back", 5, "left", 3>>  >>

\* a mutant's search: the four edge positions of the up face alone
crossEdgeFoundUpOnly(s, color) ==
    \E k \in 1..4 :
        LET e == crossEdges[k]
            color1 == s[e[1]][e[2]]
            color2 == s[e[3]][e[4]]
        IN  (color1 = "W" /\ color2 = color) \/ (color2 = "W" /\ color1 = color)

\* solveWhiteCross: whether some edge position holds white and color
crossEdgeFound(s, color) ==
    \E k \in 1..Len(crossEdges) :
        LET e == crossEdges[k]
            color1 == s[e[1]][e[2]]
            color2 == s[e[3]][e[4]]
        IN  (color1 = "W" /\ color2 = color) \/ (color2 = "W" /\ color1 = color)

\* solveWhiteCorners: [frontColor, leftColor] of the four slots
cornersToSolve == << <<"R", "G">>, <<"B", "R">>, <<"O", "B">>, <<"G", "O">> >>
cornerSafety == 5

\* solveWhiteCorners: the condition of the loop that turns the cube with y
slotNotInFront(s, slot) ==
    s.front[4] # cornersToSolve[slot][1] \/ s.right[4] # cornersToSolve[slot][2]

\* solveWhiteCorners: u_colors holds white, frontColor and leftColor
cornerAbove(s, slot) ==
    LET u_colors == {s.up[8], s.front[2], s.right[0]}
    IN  /\ "W" \in u_colors
        /\ cornersToSolve[slot][1] \in u_colors
        /\ cornersToSolve[slot][2] \in u_colors

\* solveWhiteCorners: the condition of the insertion loop
cornerNotInserted(s, slot) ==
    s.down[2] # "W" \/ s.front[8] # cornersToSolve[slot][1]

Work(i) == heap[solvers[i].state]

\* one call of execute(moves) by solver i, which then continues as ctl
Exec(i, moves, ctl) ==
    LET w == execute([state |-> Work(i), solution |-> solvers[i].solution], moves)
    IN  /\ Len(w.solution) <= LogCapacity
        /\ heap' = [heap EXCEPT ![solvers[i].state] = w.state]
        /\ solvers' = [solvers EXCEPT ![i] =
                          [ctl EXCEPT !.solution = w.solution, !.nexec = @ + 1]]

\* a step of solver i that calls nothing
Goto(i, ctl) ==
    /\ solvers' = [solvers EXCEPT ![i] = ctl]
    /\ UNCHANGED heap

\* new CubeSolverJS(cubeModel)
Construct(i) ==
    /\ solvers[i].pc = "absent"
    /\ LET ref == constructorStateRef(i)
       IN  /\ heap' = [r \in DOMAIN heap \cup {ref} |->
                          IF r = ref THEN heap[CallerRef] ELSE heap[r]]
           /\ solvers' = [solvers EXCEPT ![i] =
                             [NoSolver EXCEPT !.pc = "ready", !.state = ref]]
    /\ UNCHANGED <<engineVars, input, callerVars>>

\* solve(), up to the call of the first phase
Solve(i) ==
    /\ solvers[i].pc = "ready"
    /\ IF isSolved(Work(i))
       THEN Goto(i, [solvers[i] EXCEPT !.pc = "returned", !.result = <<>>])
       ELSE Goto(i, [solvers[i] EXCEPT !.pc = "solveWhiteCross", !.color = 1,
                                       !.attempts = 0, !.found = FALSE])
    /\ UNCHANGED <<engineVars, input, callerVars>>

\* a mutant's round of the search: attempts is not counted
CrossSearchNoCount(i) ==
    LET sv == solvers[i]
        found == crossEdgeFound(Work(i), crossColors[sv.color])
        ctl == [sv EXCEPT !.found = found]
    IN  /\ sv.pc = "solveWhiteCross"
        /\ ~sv.found /\ sv.attempts < crossAttempts
        /\ IF found THEN Goto(i, ctl) ELSE Exec(i, AlgU, ctl)
        /\ UNCHANGED <<engineVars, input, callerVars>>

\* solveWhiteCross: one round of while (!found && attempts < 20)
CrossSearch(i) ==
    LET sv == solvers[i]
        found == crossEdgeFound(Work(i), crossColors[sv.color])
        ctl == [sv EXCEPT !.attempts = @ + 1, !.found = found]
    IN  /\ sv.pc = "solveWhiteCross"
        /\ ~sv.found /\ sv.attempts < crossAttempts
        /\ IF found THEN Goto(i, ctl) ELSE Exec(i, AlgU, ctl)
        /\ UNCHANGED <<engineVars, input, callerVars>>

\* solveWhiteCross: execute('F2') after the loop, then the next colour
CrossSeat(i) ==
    LET sv == solvers[i]
    IN  /\ sv.pc = "solveWhiteCross"
        /\ sv.found \/ sv.attempts >= crossAttempts
        /\ Exec(i, AlgF2,
                IF sv.color < Len(crossColors)
                THEN [sv EXCEPT !.color = @ + 1, !.attempts = 0, !.found = FALSE]
                ELSE [sv EXCEPT !.pc = "cornerRotate", !.color = 1, !.attempts = 0,
                                !.found = FALSE, !.slot = 1, !.spin = 0])
        /\ UNCHANGED <<engineVars, input, callerVars>>

\* solveWhiteCorners: one test of the loop that brings the slot to front-right
CornerRotate(i) ==
    LET sv == solvers[i]
    IN  /\ sv.pc = "cornerRotate"
        /\ IF slotNotInFront(Work(i), sv.slot)
           THEN Exec(i, AlgY, [sv EXCEPT !.spin = @ + 1])
           ELSE Goto(i, [sv EXCEPT !.pc = "cornerFind", !.i = 0, !.spin = 0])
        /\ UNCHANGED <<engineVars, input, callerVars>>

\* solveWhiteCorners: one round of the safety loop for (i = 0; i < 5; i++)
CornerFind(i) ==
    LET sv == solvers[i]
    IN  /\ sv.pc = "cornerFind"
        /\ IF sv.i < cornerSafety /\ ~cornerAbove(Work(i), sv.slot)
           THEN Exec(i, AlgU, [sv EXCEPT !.i = @ + 1])
           ELSE Goto(i, [sv EXCEPT !.pc = "cornerInsert", !.i = 0, !.spin = 0])
        /\ UNCHANGED <<engineVars, input, callerVars>>

\* solveWhiteCorners: one test of the insertion loop, then the next slot
CornerInsert(i) ==
    LET sv == solvers[i]
    IN  /\ sv.pc = "cornerInsert"
        /\ IF cornerNotInserted(Work(i), sv.slot)
           THEN Exec(i, AlgInsertCorner, [sv EXCEPT !.spin = @ + 1])
           ELSE Goto(i, IF sv.slot < Len(cornersToSolve)
                        THEN [sv EXCEPT !.pc = "cornerRotate", !.slot = @ + 1, !.spin = 0]
                        ELSE [sv EXCEPT !.pc = "solveMiddleLayer", !.slot = 1, !.spin = 0])
        /\ UNCHANGED <<engineVars, input, callerVars>>

\* solver.solve() from its call to where it has got
SolveSteps(i) ==
    \/ Solve(i)
    \/ CrossSearch(i)
    \/ CrossSeat(i)
    \/ CornerRotate(i)
    \/ CornerFind(i)
    \/ CornerInsert(i)

SolverStep(i) ==
    \/ Construct(i)
    \/ Solve(i)
    \/ CrossSearch(i)
    \/ CrossSeat(i)
    \/ CornerRotate(i)
    \/ CornerFind(i)
    \/ CornerInsert(i)

\* a scramble of twenty moves, as generateRandomScramble's fallback draws them
LongScramble ==
    join(<< <<"R">>, <<"U", "2">>, <<"F", "'">>, <<"L">>, <<"D", "2">>,
            <<"B">>, <<"U", "'">>, <<"R", "2">>, <<"F">>, <<"D", "'">>,
            <<"L", "2">>, <<"B", "'">>, <<"U">>, <<"R", "'">>, <<"D">>,
            <<"F", "2">>, <<"L", "'">>, <<"B", "2">>, <<"U", "2">>, <<"R">> >>)

\* scrambles longer than MaxScramble: two-move ones after which the cross
\* search turns U, and the one of twenty moves
SampleScrambles ==
    { <<"R", " ", "U">>,
      <<"F", "'", " ", "L">>,
      <<"L", "'", " ", "U", "'">>,
      <<"R", "'", " ", "F">>,
      LongScramble }

SolveInputs ==
    LET scrambled == ScrambledStates \cup
                     {executeAlgorithm(solvedState, a) : a \in SampleScrambles}
    IN  scrambled \cup {swapLeftRight(s) : s \in scrambled}

InitSolve(inputs) ==
    /\ input \in inputs
    /\ heap = [r \in {CallerRef} |-> input]
    /\ solvers = IdleSolvers
    /\ NewCubeModel
    /\ jsCube = solvedState
    /\ before = solvedState
    /\ lastOp = NoOp
    /\ reps = 0
    /\ IdleCallers

\* one solver, run as solveCube and the worker run it
Init == InitSolve(SolveInputs)

Next == \E i \in {1} : SolverStep(i)

Spec == Init /\ [][Next]_vars

\* two solvers built from the same caller's model, their steps interleaved
TwoInputs ==
    LET scrambled == {executeAlgorithm(solvedState, a) : a \in {<<>>, AlgF2, <<"R", " ", "U">>}}
    IN  scrambled \cup {swapLeftRight(s) : s \in scrambled}

InitTwo == InitSolve(TwoInputs)

NextTwo == \E i \in Solvers : SolverStep(i)

SpecTwo == InitTwo /\ [][NextTwo]_vars

---------------------------------------------------------------------------
(* Claims about the solver, checked under Spec and SpecTwo *)

Built(i) == solvers[i].pc # "absent"

\* replaying a move list as prevStep does: executeAlgorithm(moves.join(' '))
replay(s, moves) == executeAlgorithm(s, join(moves))

\* the claims' notion of a solved state
AllFacesUniform(s) == \A f \in FaceNames : \A k \in Idx : s[f][k] = s[f][4]

\* the input was obtained from the solved state by a scramble
InputIsScramble == input.front[4] = "R" /\ input.right[4] = "B"

\* solver i is in a round of the y loop that leaves the cube as it is, with the
\* loop's condition still true: every later round is the same
SpinsInPlace(i) ==
    /\ solvers[i].pc = "cornerRotate"
    /\ slotNotInFront(Work(i), solvers[i].slot)
    /\ executeAlgorithm(Work(i), AlgY) = Work(i)

\* C1 (as claimed): from every scramble of the solved state solve() returns,
\* and the returned list replayed on the original state gives a solved state.
\* Returning requires that the solver is never in a loop that cannot end.
C1_SolveSolvesScrambles ==
    InputIsScramble =>
        \A i \in Solvers : Built(i) =>
            /\ ~SpinsInPlace(i)
            /\ solvers[i].pc = "returned" =>
                   AllFacesUniform(replay(input, solvers[i].result))

\* C2 (as claimed): every phase loop ends after a bounded number of rounds, the
\* largest retry bound of the phases being 20.
C2_LoopsBounded ==
    \A i \in Solvers : solvers[i].spin <= crossAttempts

\* C3: on a state whose faces are all uniform solve() returns the empty list at
\* once: no phase is entered, nothing is executed, log and state stay as they
\* were.
C3_SolvedReturnsEmpty ==
    AllFacesUniform(input) =>
        \A i \in Solvers : Built(i) =>
            /\ solvers[i].pc \in {"ready", "returned"}
            /\ solvers[i].nexec = 0
            /\ solvers[i].solution = <<>>
            /\ solvers[i].result = <<>>
            /\ Work(i) = input

\* solve() has returned on the solved state
C3_Witness ==
    /\ input = solvedState
    /\ solvers[1].pc = "returned"
    /\ solvers[1].result = <<>>

\* C4 (as claimed): on the state F2 makes of the solved state, solve() returns a
\* list whose replay on that state gives a solved state.
C4_SolvesAfterF2 ==
    input = executeAlgorithm(solvedState, AlgF2) =>
        \A i \in Solvers :
            /\ ~SpinsInPlace(i)
            /\ solvers[i].pc = "returned" =>
                   AllFacesUniform(replay(input, solvers[i].result))

\* the log replayed on the input is the working state
LogReplaysToWork ==
    \A i \in Solvers : Built(i) => replay(input, solvers[i].solution) = Work(i)

\* a step changes a solver's working state or log only as one call of execute
\* does: the algorithm applied to the state and its moves appended to the log
OnlyExecuteChanges ==
    \A i \in Solvers : Built(i) =>
        IF solvers'[i].nexec = solvers[i].nexec
        THEN /\ heap'[solvers'[i].state] = Work(i)
             /\ solvers'[i].solution = solvers[i].solution
        ELSE /\ solvers'[i].nexec = solvers[i].nexec + 1
             /\ \E m \in SolverAlgs :
                   /\ heap'[solvers'[i].state] = executeAlgorithm(Work(i), m)
                   /\ solvers'[i].solution = solvers[i].solution \o splitMoves(m)

\* C5: at every point of a solve the log, replayed from the input state, gives
\* the working state, and only execute() changes either, both together.
C5_LogReplaysToWork == []LogReplaysToWork /\ [][OnlyExecuteChanges]_vars

\* a solve that has executed single moves and a four-move algorithm, and whose
\* working state differs from the input
C5_Witness ==
    /\ solvers[1].pc = "cornerInsert"
    /\ solvers[1].spin = 2
    /\ Len(solvers[1].solution) > solvers[1].nexec
    /\ Work(1) # input

\* a step that changes one solver's position, log or working state leaves the
\* other solver's position, log and working state as they were
OthersUntouched ==
    \A i \in Solvers : \A j \in Solvers \ {i} :
        (Built(j) /\ (solvers'[i] # solvers[i] \/ (Built(i) /\ heap'[solvers'[i].state] # Work(i)))) =>
            /\ solvers'[j] = solvers[j]
            /\ heap'[solvers'[j].state] = Work(j)

\* C6: the caller's state never changes, and a step of one solver changes
\* neither the working state nor the log of the other.
C6_SolversIsolated == [](heap[CallerRef] = input) /\ [][OthersUntouched]_vars

\* both solvers are in the middle of a solve of an unsolved state and have got
\* to different working states, the caller's state being as it was
C6_Witness ==
    /\ ~AllFacesUniform(input)
    /\ solvers[1].nexec > 0
    /\ solvers[2].nexec > 0
    /\ Work(1) # Work(2)
    /\ Work(1) # heap[CallerRef]
    /\ solvers[1].solution # solvers[2].solution

\* C7 (as claimed): every token of the move log is a face letter of
\* U, D, L, R, F, B, optionally followed by ' or 2.
C7_LogInGrammar ==
    \A i \in Solvers :
        \A k \in 1..Len(solvers[i].solution) : solvers[i].solution[k] \in MoveTokens

---------------------------------------------------------------------------
(* simplifyMoves *)

\* bounds: lists over the whole grammar, and longer lists over two faces
MaxListLen == 2
MaxTwoFaceLen == 4

turnsPrimeAsOne(m) == IF m[Len(m)] = "2" THEN 2 ELSE 1

\* m.endsWith("'") ? 3 : (m.endsWith("2") ? 2 : 1)
turns(m) == IF m[Len(m)] = "'" THEN 3 ELSE IF m[Len(m)] = "2" THEN 2 ELSE 1

sameFaceAndSuffix(m1, m2) == m1 = m2

\* m1[0] === m2[0]
sameFace(m1, m2) == m1[1] = m2[1]

\* what the pass pushes for a pair of moves of one face
merged(m1, m2) ==
    LET face == m1[1]
        totalTurns == (turns(m1) + turns(m2)) % 4
    IN  IF totalTurns = 0 THEN <<>>
        ELSE IF totalTurns = 1 THEN << <<face>> >>
        ELSE IF totalTurns = 2 THEN << <<face, "2">> >>
        ELSE << <<face, "'">> >>

\* the inner while loop from position i (the code's i + 1): newMoves and changed
RECURSIVE simplifyPass(_, _)
simplifyPass(simplified, i) ==
    IF i > Len(simplified) THEN [newMoves |-> <<>>, changed |-> FALSE]
    ELSE IF i + 1 <= Len(simplified) /\ sameFace(simplified[i], simplified[i + 1])
    THEN LET rest == simplifyPass(simplified, i + 2)
         IN  [newMoves |-> merged(simplified[i], simplified[i + 1]) \o rest.newMoves,
              changed |-> TRUE]
    ELSE LET rest == simplifyPass(simplified, i + 1)
         IN  [newMoves |-> <<simplified[i]>> \o rest.newMoves, changed |-> rest.changed]

simplifyOnePass(moves) ==
    IF Len(moves) < 2 THEN moves ELSE simplifyPass(moves, 1).newMoves

\* simplifyMoves(moves): passes until one changes nothing
RECURSIVE simplifyMoves(_)
simplifyMoves(moves) ==
    IF Len(moves) < 2 THEN moves
    ELSE LET pass == simplifyPass(moves, 1)
         IN  IF pass.changed THEN simplifyMoves(pass.newMoves) ELSE pass.newMoves

\* a mutant's simplifyMoves works in the caller's list
movesAfterSimplifyInPlace(moves) == simplifyMoves(moves)

\* the caller's list after simplifyMoves(moves): let simplified = [...moves]
\* copies it, and every pass builds a new newMoves
movesAfterSimplify(moves) == moves

\* the passes of the while loop that simplifyMoves(moves) makes, fuel at most
RECURSIVE simplifyPassCount(_, _)
simplifyPassCount(moves, fuel) ==
    IF Len(moves) < 2 \/ fuel = 0 THEN 0
    ELSE LET pass == simplifyPass(moves, 1)
         IN  IF pass.changed THEN 1 + simplifyPassCount(pass.newMoves, fuel - 1) ELSE 1

\* every list of at most n tokens drawn from tokens
RECURSIVE ListsOver(_, _)
ListsOver(tokens, n) ==
    IF n = 0 THEN {<<>>}
    ELSE LET shorter == ListsOver(tokens, n - 1)
         IN  shorter \cup {Append(ts, tk) : ts \in {x \in shorter : Len(x) = n - 1},
                                            tk \in tokens}

TwoFaceTokens == {<<f>> \o x : f \in {"R", "U"}, x \in Suffixes}

SimplifyLists == ListsOver(MoveTokens, MaxListLen) \cup ListsOver(TwoFaceTokens, MaxTwoFaceLen)

SimplifyStarts == {labelledState, executeAlgorithm(solvedState, SexyMove)}

InitSimplify ==
    /\ NewCubeModel
    /\ jsCube = solvedState
    /\ before = solvedState
    /\ lastOp = NoOp
    /\ reps = 0
    /\ input \in SimplifyStarts
    /\ heap = [r \in {CallerRef} |-> input]
    /\ solvers = IdleSolvers
    /\ IdleCallers

\* simplifyMoves(list)
CallSimplify(list) ==
    /\ simp.pc = "idle"
    /\ simp' = [simp EXCEPT !.pc = "once", !.moves = list,
                            !.after = movesAfterSimplify(list),
                            !.once = simplifyMoves(list)]
    /\ UNCHANGED <<engineVars, solverVars, cubeState, currentSolution, page, worker, player>>

\* simplifyMoves on the list the first call returned
CallSimplifyAgain ==
    /\ simp.pc = "once"
    /\ simp' = [simp EXCEPT !.pc = "twice", !.twice = simplifyMoves(simp.once)]
    /\ UNCHANGED <<engineVars, solverVars, cubeState, currentSolution, page, worker, player>>

NextSimplify ==
    \/ \E list \in SimplifyLists : CallSimplify(list)
    \/ CallSimplifyAgain

SpecSimplify == InitSimplify /\ [][NextSimplify]_vars

---------------------------------------------------------------------------
(* Claims about simplifyMoves, checked under SpecSimplify *)

\* a list in which a pair cancels and lets the moves around it meet
CascadingList == << <<"R">>, <<"U">>, <<"U", "'">>, <<"R", "2">> >>

\* C11: for every move list of the grammar and every state, replaying the list
\* and replaying simplifyMoves(list) from that state give the same state.
C11_SimplifyKeepsEffect ==
    simp.pc # "idle" => replay(input, simp.once) = replay(input, simp.moves)

\* the cascading list has been simplified to R' and changes the cube of 54
\* distinct facelets
C11_Witness ==
    /\ simp.pc = "once"
    /\ simp.moves = CascadingList
    /\ simp.once = << <<"R", "'">> >>
    /\ input = labelledState
    /\ replay(input, simp.moves) # input

\* C12: simplifyMoves(simplifyMoves(L)) = simplifyMoves(L) for every list L.
C12_SimplifyIdempotent ==
    simp.pc = "twice" => simp.twice = simp.once

\* the second call has been made on a result that took two passes to reach
C12_Witness ==
    /\ simp.pc = "twice"
    /\ simp.moves = CascadingList
    /\ simp.once # simplifyPass(simp.moves, 1).newMoves

NoAdjacentSameFace(list) ==
    \A k \in 1..(Len(list) - 1) : list[k][1] # list[k + 1][1]

\* C13: the returned list has no two adjacent moves of one face, and a list
\* without such a pair is returned as it is.
C13_NoAdjacentSameFace ==
    simp.pc # "idle" =>
        /\ NoAdjacentSameFace(simp.once)
        /\ NoAdjacentSameFace(simp.moves) => simp.once = simp.moves

\* an adjacent pair has been merged, and the moves of the same face that another
\* face's move separates have both been kept
C13_Witness ==
    /\ simp.pc = "once"
    /\ simp.moves = << <<"R">>, <<"R">>, <<"U">>, <<"R">> >>
    /\ simp.once = << <<"R", "2">>, <<"U">>, <<"R">> >>

---------------------------------------------------------------------------
(* More claims about the engine, checked under SpecEngine *)

\* every facelet of s, as (face, index)
Facelets(s) == UNION {{<<f, k>> : k \in DOMAIN s[f]} : f \in DOMAIN s}

\* the values the facelets of s hold
FaceletValues(s) == {s[fk[1]][fk[2]] : fk \in Facelets(s)}

\* countColor(color): the facelets of all faces that hold color
countColor(s, color) ==
    Cardinality({fk \in Facelets(s) : s[fk[1]][fk[2]] = color})

\* validateCubeState(): the six faces are arrays of 9 entries, and each of the
\* colours W, Y, R, O, G, B is counted 9 times
validateCubeState(s) ==
    /\ \A face \in FaceNames : face \in DOMAIN s /\ DOMAIN s[face] = Idx
    /\ \A color \in Colors : countColor(s, color) = 9

\* C15: the centre facelet of every face is the same after any move or
\* algorithm as it was in the starting state.
C15_CentersFixed ==
    \A f \in FaceNames : jsCube[f][4] = before[f][4]

\* an algorithm has changed the cube of 54 distinct facelets around the centres
C15_Witness ==
    /\ lastOp = OpExecuteAlgorithm(<<"F", " ", "B", "'">>)
    /\ reps = 2
    /\ before = labelledState
    /\ jsCube.front # before.front

\* C16: moves permute the facelets: every face keeps its 9 entries and every
\* colour its number of occurrences, and what is reached from the solved state
\* passes validateCubeState.
C16_MovesPermute ==
    /\ \A f \in FaceNames : DOMAIN jsCube[f] = Idx
    /\ \A color \in Colors : countColor(jsCube, color) = countColor(before, color)
    /\ FaceletValues(jsCube) = FaceletValues(before)
    /\ before = solvedState => validateCubeState(jsCube)

\* a run of U turns from the solved state has left the side faces mixed
C16_Witness ==
    /\ lastOp = OpPerformMove("U")
    /\ reps = 3
    /\ before = solvedState
    /\ jsCube.front[0] # jsCube.front[4]

\* C19: an empty or spaces-only string leaves the state as it is, and a token
\* that names no face is skipped while the other tokens are applied in order.
C19_UnknownTokensSkipped ==
    \A odd \in OddAlgs :
        (lastOp = OpExecuteAlgorithm(odd.given) /\ reps = 1) =>
            /\ jsCube = executeAlgorithm(before, odd.kept)
            /\ odd.kept = <<>> => jsCube = before

\* R x U' has been executed on the cube of 54 distinct facelets
C19_Witness ==
    /\ lastOp = OpExecuteAlgorithm(<<"R", " ", "x", " ", "U", "'">>)
    /\ reps = 1
    /\ before = labelledState
    /\ jsCube # performMove(before, "R")
    /\ jsCube # before

\* the canonical solved configuration
CanonicalSolved ==
    [up |-> [k \in Idx |-> "W"], down |-> [k \in Idx |-> "Y"],
     front |-> [k \in Idx |-> "R"], back |-> [k \in Idx |-> "O"],
     left |-> [k \in Idx |-> "G"], right |-> [k \in Idx |-> "B"]]

\* C20: reset() after any moves gives the canonical solved configuration, and
\* no move alters the template reset() copies from.
C20_ResetRestores ==
    /\ solvedTemplate = CanonicalSolved
    /\ lastOp = OpReset => jsCube = CanonicalSolved

\* reset() has just been called after a run of operations
C20_Witness ==
    /\ lastOp = OpReset
    /\ reps = 0
    /\ jsCube = CanonicalSolved
    /\ stateRef = "own"

---------------------------------------------------------------------------
(* The solution player: what its functions do to the player's fields *)

\* pauseAnimation()
pauseAnimation(p) == [p EXCEPT !.isPlaying = FALSE]

\* resetAnimation(): pause, index 0, the 3D cube's queue emptied and its
\* isAnimating cleared, the scrambled state shown again when one is stored
resetAnimation(p) ==
    [pauseAnimation(p) EXCEPT
        !.currentMoveIndex = 0,
        !.animationQueue = <<>>,
        !.isAnimating = FALSE,
        !.cubeStateForAnimation = IF p.hasScrambled THEN p.scrambledState ELSE @]

\* Cube3D.animateMove(move, callback): queued while an animation runs, else
\* started
animateMove(p, m, callback) ==
    IF p.isAnimating
    THEN [p EXCEPT !.animationQueue = Append(@, [move |-> m, callback |-> callback])]
    ELSE [p EXCEPT !.isAnimating = TRUE,
                   !.inFlight = Append(@, [move |-> m, callback |-> callback])]

\* step() of playAnimation
step(p, solution) ==
    IF ~p.isPlaying \/ p.currentMoveIndex >= Len(solution)
    THEN pauseAnimation(p)
    ELSE animateMove(p, solution[p.currentMoveIndex + 1], "play")

\* playAnimation(), mainCube3d being there
playAnimation(p, solution) ==
    IF p.isPlaying \/ Len(solution) = 0 THEN p
    ELSE LET playing == [p EXCEPT !.isPlaying = TRUE]
             started == IF playing.currentMoveIndex = 0
                        THEN resetAnimation(playing) ELSE playing
         IN  step(started, solution)

\* nextStep()
nextStep(p, solution) ==
    IF p.isPlaying \/ p.currentMoveIndex >= Len(solution) THEN p
    ELSE LET m == solution[p.currentMoveIndex + 1]
         IN  animateMove([pauseAnimation(p) EXCEPT
                             !.cubeStateForAnimation = executeAlgorithm(@, m)],
                         m, "next")

\* prevStep(); without a stored scrambled state JSON.parse throws after the
\* index was lowered
prevStep(p, solution) ==
    IF p.isPlaying \/ p.currentMoveIndex <= 0 THEN p
    ELSE LET back == [pauseAnimation(p) EXCEPT !.currentMoveIndex = @ - 1]
             upTo == IF back.currentMoveIndex < Len(solution)
                     THEN back.currentMoveIndex ELSE Len(solution)
             movesToApply == SubSeq(solution, 1, upTo)
         IN  IF p.hasScrambled
             THEN [back EXCEPT !.cubeStateForAnimation =
                                   executeAlgorithm(p.scrambledState, join(movesToApply))]
             ELSE back

\* the callback of an animation that has ended: of step(), or of nextStep()
animationCallback(p, done, solution) ==
    IF done.callback = "play"
    THEN step([p EXCEPT !.cubeStateForAnimation = executeAlgorithm(@, done.move),
                        !.currentMoveIndex = @ + 1],
              solution)
    ELSE [p EXCEPT !.currentMoveIndex = @ + 1]

\* Cube3D.updateCubeColors(cubeState) of the main cube, its model loaded
updateCubeColors(p, s) == [p EXCEPT !.cubeStateForAnimation = s]

\* $('#animationControls').data('scrambled-state', copy of cubeState)
storeScrambled(p, s) == [p EXCEPT !.hasScrambled = TRUE, !.scrambledState = s]

\* displaySolution(solution): index 0, not playing, and for a list with moves
\* resetAnimation()
displaySolution(p, solution) ==
    LET shown == [p EXCEPT !.currentMoveIndex = 0, !.isPlaying = FALSE]
    IN  IF Len(solution) = 0 THEN shown ELSE resetAnimation(shown)

---------------------------------------------------------------------------
(* The undo history of the page: stateHistory and historyIndex, kept in the
   page record; stateHistory[k + 1] is the script's stateHistory[k] *)

MAX_HISTORY == 50

\* saveState() without the limit on the size of the list
saveStateUncapped(pg, cs) ==
    [pg EXCEPT !.stateHistory = Append(SubSeq(@, 1, pg.historyIndex + 1), cs),
               !.historyIndex = @ + 1]

\* saveState() with cubeState holding cs: the entries after historyIndex are
\* dropped, a copy of cs is pushed, and the oldest entry is shifted out when
\* the list has grown beyond MAX_HISTORY, else historyIndex moves up
saveState(pg, cs) ==
    LET sliced == SubSeq(pg.stateHistory, 1,
                         IF pg.historyIndex + 1 < Len(pg.stateHistory)
                         THEN pg.historyIndex + 1 ELSE Len(pg.stateHistory))
        pushed == Append(sliced, cs)
    IN  IF Len(pushed) > MAX_HISTORY
        THEN [pg EXCEPT !.stateHistory = Tail(pushed)]
        ELSE [pg EXCEPT !.stateHistory = pushed, !.historyIndex = @ + 1]

\* undo(): the page and the cubeState after it
undo(pg, cs) ==
    IF pg.historyIndex > 0
    THEN [page |-> [pg EXCEPT !.historyIndex = @ - 1],
          cubeState |-> pg.stateHistory[pg.historyIndex]]
    ELSE [page |-> pg, cubeState |-> cs]

\* redo(): the page and the cubeState after it
redo(pg, cs) ==
    IF pg.historyIndex < Len(pg.stateHistory) - 1
    THEN [page |-> [pg EXCEPT !.historyIndex = @ + 1],
          cubeState |-> pg.stateHistory[pg.historyIndex + 2]]
    ELSE [page |-> pg, cubeState |-> cs]

---------------------------------------------------------------------------
(* The page: sticker clicks, detection, solveCube and its fallbacks *)

\* requests to /api/solve the model lets wait for an answer at one time
MaxPending == 2

\* one facelet set to a colour
repaint(s, face, index, color) == [s EXCEPT ![face][index] = color]

\* states detection hands over: whatever nine colours each photograph gave
DetectedStates ==
    { swapLeftRight(solvedState),
      executeAlgorithm(solvedState, AlgU),
      swapLeftRight(executeAlgorithm(solvedState, <<"R", " ", "U">>)),
      repaint(solvedState, "front", 0, "W"),
      repaint(repaint(solvedState, "front", 0, "W"), "up", 8, "R"),
      repaint(executeAlgorithm(solvedState, AlgU), "up", 8, "G") }

\* the stickers and palette colours the clicks of the model use
ClickedStickers == {<<"front", 0>>, <<"up", 8>>, <<"front", 4>>}
ClickColors == {"W", "R"}

\* the basicSolution of solveCube's fallback branch, split(' ')
BasicSolution ==
    << <<"R">>, <<"U">>, <<"R", "'">>, <<"U", "'">>, <<"R", "'">>, <<"F">>, <<"R", "2">>,
       <<"U", "'">>, <<"R", "'">>, <<"U", "'">>, <<"R">>, <<"U">>, <<"R", "'">>, <<"F", "'">> >>

\* solutions a successful answer of /api/solve carries
ServerSolutions == {<<>>, <<AlgF2>>, BasicSolution}

\* no handler of the page is running
PageIdle == solvers[1].pc = "absent"

\* const cube = new CubeModel(); cube.state = copy of cubeState;
\* const solver = new CubeSolverJS(cube)
StartSolver(cs) ==
    /\ input' = cs
    /\ heap' = (CallerRef :> cs) @@ (constructorStateRef(1) :> cs)
    /\ solvers' = [solvers EXCEPT ![1] =
                      [NoSolver EXCEPT !.pc = "ready", !.state = constructorStateRef(1)]]

\* solveCube() with cubeState holding cs, up to the call of solver.solve()
SolveCubeFrom(cs) ==
    IF ~validateCubeState(cs)
    THEN /\ page' = [page EXCEPT !.alert = "invalid"]
         /\ UNCHANGED <<currentSolution, solverVars>>
    ELSE /\ StartSolver(cs)
         /\ UNCHANGED <<currentSolution, page>>

\* a click on the Solve button, which is disabled while a request waits
SolveCube ==
    /\ PageIdle
    /\ page.pending = 0
    /\ cubeState' = cubeState
    /\ SolveCubeFrom(cubeState)
    /\ UNCHANGED <<engineVars, simp, worker, player>>

\* processCapturedFaces: detectColorsClientSide returns the detected state when
\* validateCubeState() accepts the page's cubeState of that moment; then
\* cubeState = detectedState and solveCube()
ProcessCapturedFaces(detectedState) ==
    /\ PageIdle
    /\ page.pending < MaxPending
    /\ validateCubeState(cubeState)
    /\ cubeState' = detectedState
    /\ player' = updateCubeColors(player, detectedState)
    /\ SolveCubeFrom(detectedState)
    /\ UNCHANGED <<engineVars, simp, worker>>

\* the click handler without its test of the colour's limit
clickAcceptedNoLimit(cs, face, index, currentColor) == index # 4

\* the sticker click handler lets the click on this sticker with this active
\* palette colour through: not a centre, and the colour not at its limit of 9
clickAccepted(cs, face, index, currentColor) ==
    LET oldColor == cs[face][index]
        colorCount == countColor(cs, currentColor) -
                      (IF oldColor = currentColor THEN 1 ELSE 0)
    IN  index # 4 /\ ~(colorCount >= 9 /\ oldColor # currentColor)

\* the 2D sticker click handler, with currentColor the active palette colour:
\* an alert for a centre or a colour at its limit, else saveState() and the
\* colour change; the page and the cubeState after it
stickerClick(pg, cs, face, index, currentColor) ==
    IF index = 4
    THEN [page |-> [pg EXCEPT !.alert = "center"], cubeState |-> cs]
    ELSE IF ~clickAccepted(cs, face, index, currentColor)
    THEN [page |-> [pg EXCEPT !.alert = "limit"], cubeState |-> cs]
    ELSE [page |-> saveState(pg, cs),
          cubeState |-> repaint(cs, face, index, currentColor)]

\* a click on a sticker; after a change updateAll3DCubes() shows the state
StickerClick(face, index, currentColor) ==
    /\ PageIdle
    /\ cubeState' = stickerClick(page, cubeState, face, index, currentColor).cubeState
    /\ page' = stickerClick(page, cubeState, face, index, currentColor).page
    /\ player' = IF clickAccepted(cubeState, face, index, currentColor)
                 THEN updateCubeColors(player, cubeState') ELSE player
    /\ UNCHANGED <<engineVars, solverVars, currentSolution, simp, worker>>

\* solver.solve() has returned. In solveCube: a list with moves is displayed, an
\* empty one sends the state to /api/solve. In the error handler: the list is
\* displayed. The handler returns and its solver is dropped.
FinishSolve ==
    LET solution == solvers[1].result
    IN  /\ solvers[1].pc = "returned"
        /\ IF page.offline
           THEN /\ currentSolution' = solution
                /\ player' = displaySolution(player, solution)
                /\ page' = [page EXCEPT !.alert = "offline", !.offline = FALSE]
           ELSE IF Len(solution) > 0
           THEN /\ currentSolution' = solution
                /\ player' = displaySolution(storeScrambled(player, cubeState), solution)
                /\ page' = page
           ELSE /\ currentSolution' = currentSolution
                /\ player' = player
                /\ page' = [page EXCEPT !.pending = @ + 1, !.asked = cubeState]
        /\ solvers' = [solvers EXCEPT ![1] = NoSolver]
        /\ heap' = [r \in {CallerRef} |-> heap[CallerRef]]
        /\ UNCHANGED <<engineVars, input, cubeState, simp, worker>>

\* the success callback of the request: response.success with a solution,
\* response.fallback, or neither
ServerAnswers(kind, solution) ==
    /\ PageIdle
    /\ page.pending > 0
    /\ IF kind = "success"
       THEN /\ currentSolution' = solution
            /\ player' = displaySolution(storeScrambled(player, cubeState), solution)
            /\ page' = [page EXCEPT !.pending = @ - 1]
       ELSE IF kind = "fallback"
       THEN /\ currentSolution' = BasicSolution
            /\ player' = displaySolution(player, BasicSolution)
            /\ page' = [page EXCEPT !.pending = @ - 1, !.alert = "fallback"]
       ELSE /\ currentSolution' = currentSolution
            /\ player' = player
            /\ page' = [page EXCEPT !.pending = @ - 1, !.alert = "failed"]
    /\ UNCHANGED <<engineVars, solverVars, cubeState, simp, worker>>

\* the error callback of the request: a solver built from cubeState as it is
\* when the callback runs
ServerFails ==
    /\ PageIdle
    /\ page.pending > 0
    /\ StartSolver(cubeState)
    /\ page' = [page EXCEPT !.pending = @ - 1, !.offline = TRUE]
    /\ UNCHANGED <<engineVars, cubeState, currentSolution, simp, worker, player>>

InitPage == InitSolve({solvedState})

NextPage ==
    \/ SolveCube
    \/ \E detectedState \in DetectedStates : ProcessCapturedFaces(detectedState)
    \/ \E i \in {1} : SolveSteps(i)
    \/ FinishSolve
    \/ \E kind \in {"success", "fallback", "failed"}, solution \in ServerSolutions :
          ServerAnswers(kind, solution)
    \/ ServerFails

SpecPage == InitPage /\ [][NextPage]_vars

---------------------------------------------------------------------------
(* Claims about the page, checked under SpecPage *)

\* C17 (as claimed): solveCube invokes a solver, in the page or at /api/solve,
\* only on a cubeState with six faces of 9 entries and each of the six colours
\* 9 times: whenever a solver built by solveCube exists the cubeState validates,
\* and every state sent to /api/solve validates.
C17_SolverOnlyOnValid ==
    /\ \A i \in Solvers : Built(i) => validateCubeState(cubeState)
    /\ page.pending > 0 => validateCubeState(page.asked)

---------------------------------------------------------------------------
(* The solver worker: self.onmessage *)

\* messages with a cubeState the model lets the worker receive
MaxMessages == 2

\* the cubeState has the six faces
SixFaces(s) == DOMAIN s = FaceNames

\* an object with the up face alone
OnlyUp(s) == [f \in {"up"} |-> s.up]

\* what e.data.cubeState holds when it holds something
WorkerStates ==
    { solvedState,
      swapLeftRight(solvedState),
      executeAlgorithm(solvedState, <<"D">>),
      executeAlgorithm(solvedState, AlgF2),
      executeAlgorithm(solvedState, <<"R", " ", "U">>),
      OnlyUp(solvedState),
      OnlyUp(executeAlgorithm(solvedState, <<"R">>)) }

\* e.data: an object without cubeState, or one with
WorkerMessages ==
    {[kind |-> "empty", cubeState |-> solvedState]} \cup
    {[kind |-> "state", cubeState |-> s] : s \in WorkerStates}

\* onmessage up to the call of solver.solve(); a message without cubeState is
\* dropped
Receive(e) ==
    /\ worker.pc = "idle"
    /\ IF e.kind = "empty"
       THEN /\ worker' = [worker EXCEPT !.message = "empty"]
            /\ UNCHANGED solverVars
       ELSE /\ worker.received < MaxMessages
            /\ worker' = [worker EXCEPT !.pc = "solving", !.received = @ + 1,
                                        !.message = "state"]
            /\ StartSolver(e.cubeState)
    /\ UNCHANGED <<engineVars, cubeState, currentSolution, page, simp, player>>

\* solve() on a state that lacks faces: isSolved looks at the faces there are,
\* and the cross search's read of a missing face throws a TypeError
SolveMalformed(i) ==
    /\ solvers[i].pc = "ready"
    /\ ~SixFaces(Work(i))
    /\ IF isSolved(Work(i))
       THEN Goto(i, [solvers[i] EXCEPT !.pc = "returned", !.result = <<>>])
       ELSE Goto(i, [solvers[i] EXCEPT !.pc = "threw"])
    /\ UNCHANGED <<engineVars, input, callerVars>>

\* self.postMessage({success: true, solution, move_count: solution.length})
PostSuccess ==
    /\ worker.pc = "solving"
    /\ solvers[1].pc = "returned"
    /\ worker' = [worker EXCEPT
                     !.pc = "idle",
                     !.posted = Append(@, [success |-> TRUE,
                                           solution |-> solvers[1].result,
                                           move_count |-> Len(solvers[1].result)])]
    /\ solvers' = [solvers EXCEPT ![1] = NoSolver]
    /\ heap' = [r \in {CallerRef} |-> heap[CallerRef]]
    /\ UNCHANGED <<engineVars, input, cubeState, currentSolution, page, simp, player>>

\* the catch branch: self.postMessage({success: false, error})
PostError ==
    /\ worker.pc = "solving"
    /\ solvers[1].pc = "threw"
    /\ worker' = [worker EXCEPT
                     !.pc = "idle",
                     !.posted = Append(@, [success |-> FALSE, solution |-> <<>>,
                                           move_count |-> 0])]
    /\ solvers' = [solvers EXCEPT ![1] = NoSolver]
    /\ heap' = [r \in {CallerRef} |-> heap[CallerRef]]
    /\ UNCHANGED <<engineVars, input, cubeState, currentSolution, page, simp, player>>

InitWorker == InitSolve({solvedState})

NextWorker ==
    \/ \E e \in WorkerMessages : Receive(e)
    \/ \E i \in {1} : Built(i) /\ SixFaces(Work(i)) /\ SolveSteps(i)
    \/ \E i \in {1} : SolveMalformed(i)
    \/ PostSuccess
    \/ PostError

SpecWorker == InitWorker /\ [][NextWorker]_vars

---------------------------------------------------------------------------
(* Claims about the worker and the solver it runs, checked under SpecWorker *)

\* C14: isSolved() is true exactly when on each of the six faces all 9 facelets
\* equal the face's own centre, and calling it leaves the state and the move
\* log as they were: solve() returns from its first line exactly on such a
\* state, and that step changes neither.
C14_IsSolvedIffUniform ==
    [][\A i \in {1} :
          (solvers[i].pc = "ready" /\ solvers'[i].pc # "ready" /\ SixFaces(Work(i))) =>
              /\ solvers'[i].pc = "returned" <=> AllFacesUniform(Work(i))
              /\ solvers'[i].pc # "returned" => solvers'[i].pc = "solveWhiteCross"
              /\ heap' = heap
              /\ solvers'[i].solution = solvers[i].solution]_vars

\* isSolved() has answered true on a state whose faces are uniform with
\* centres that are not the canonical ones
C14_Witness ==
    /\ worker.pc = "solving"
    /\ solvers[1].pc = "returned"
    /\ input = swapLeftRight(solvedState)
    /\ Work(1) = input

\* C18 (as claimed): for every message with a cubeState the worker posts
\* exactly one response: never more responses than messages, all of them
\* answered when the worker is idle, a solve at work never in a loop that
\* cannot end; and a success response's move_count is the length of its
\* solution.
C18_WorkerRespondsOnce ==
    /\ Len(worker.posted) <= worker.received
    /\ worker.pc = "idle" => Len(worker.posted) = worker.received
    /\ worker.pc = "solving" => ~SpinsInPlace(1)
    /\ \A k \in DOMAIN worker.posted :
          worker.posted[k].success =>
              worker.posted[k].move_count = Len(worker.posted[k].solution)

---------------------------------------------------------------------------
(* Cubies and the frame of a quarter turn, checked under SpecEngine *)

\* the eight corner positions of the cube, each the three facelets that meet
\* there (up[8]/front[2]/right[0] is the one solveWhiteCorners reads)
CornerPositions ==
    { {<<"up", 8>>, <<"front", 2>>, <<"right", 0>>},
      {<<"up", 6>>, <<"front", 0>>, <<"left", 2>>},
      {<<"up", 0>>, <<"back", 2>>,  <<"left", 0>>},
      {<<"up", 2>>, <<"back", 0>>,  <<"right", 2>>},
      {<<"down", 2>>, <<"front", 8>>, <<"right", 6>>},
      {<<"down", 0>>, <<"front", 6>>, <<"left", 8>>},
      {<<"down", 6>>, <<"back", 8>>,  <<"left", 6>>},
      {<<"down", 8>>, <<"back", 6>>,  <<"right", 8>>} }

\* the twelve edge positions, as solveWhiteCross lists them
EdgePositions ==
    { {<<crossEdges[k][1], crossEdges[k][2]>>, <<crossEdges[k][3], crossEdges[k][4]>>} :
        k \in 1..Len(crossEdges) }

\* the colours found together at a position
ColorsAt(s, position) == {s[fk[1]][fk[2]] : fk \in position}

\* the face a move letter names
faceOf(X) ==
    CASE X = "F" -> "front" [] X = "B" -> "back" [] X = "U" -> "up"
      [] X = "D" -> "down"  [] X = "L" -> "left" [] X = "R" -> "right"

\* the 12 facelets of the four neighbouring faces that border face X
Bordering(X) ==
    CASE X = "F" -> ({"up"} \X {6, 7, 8}) \cup ({"left"} \X {2, 5, 8}) \cup
                    ({"down"} \X {0, 1, 2}) \cup ({"right"} \X {0, 3, 6})
      [] X = "B" -> ({"up"} \X {0, 1, 2}) \cup ({"right"} \X {2, 5, 8}) \cup
                    ({"down"} \X {6, 7, 8}) \cup ({"left"} \X {0, 3, 6})
      [] X = "U" -> {"front", "right", "back", "left"} \X {0, 1, 2}
      [] X = "D" -> {"front", "right", "back", "left"} \X {6, 7, 8}
      [] X = "L" -> ({"up", "front", "down"} \X {0, 3, 6}) \cup ({"back"} \X {2, 5, 8})
      [] X = "R" -> ({"up", "front", "down"} \X {2, 5, 8}) \cup ({"back"} \X {0, 3, 6})

\* the facelets a quarter turn of X may change: the 8 around X's centre and the
\* 12 that border X
Turned(X) == ({faceOf(X)} \X (Idx \ {4})) \cup Bordering(X)

\* C21 (as claimed): a quarter turn maps cubies to cubies: the colours found
\* together at any corner or edge position after performMove were together at
\* one corner, respectively edge, position before it.
C21_CubiesStayTogether ==
    (lastOp.kind = "performMove" /\ reps = 1) =>
        /\ \A p \in CornerPositions : \E q \in CornerPositions :
              ColorsAt(jsCube, p) = ColorsAt(before, q)
        /\ \A p \in EdgePositions : \E q \in EdgePositions :
              ColorsAt(jsCube, p) = ColorsAt(before, q)

\* C22: performMove(X) changes only the 8 non-centre facelets of face X and the
\* 12 bordering facelets of its neighbours, every other facelet keeps its
\* value; and _rotateFace on its own changes no facelet outside the named face.
C22_TurnFrame ==
    /\ \A X \in FaceLetters :
          (lastOp = OpPerformMove(X) /\ reps = 1) =>
              \A fk \in Facelets(before) \ Turned(X) :
                  jsCube[fk[1]][fk[2]] = before[fk[1]][fk[2]]
    /\ \A face \in FaceNames, clockwise \in BOOLEAN :
          \A other \in FaceNames \ {face} :
              rotateFace(jsCube, face, clockwise)[other] = jsCube[other]

\* L has been turned once on the cube of 54 distinct facelets: each of the 20
\* facelets the turn may change has changed, and so does _rotateFace change the
\* face it names
C22_Witness ==
    /\ lastOp = OpPerformMove("L")
    /\ reps = 1
    /\ before = labelledState
    /\ \A fk \in Turned("L") : jsCube[fk[1]][fk[2]] # before[fk[1]][fk[2]]
    /\ rotateFace(jsCube, "left", FALSE).left # jsCube.left

---------------------------------------------------------------------------
(* The phases of the solver one by one *)

\* execute('y') n times in a row on a working state
RECURSIVE yTimes(_, _)
yTimes(s, n) == IF n = 0 THEN s ELSE yTimes(executeAlgorithm(s, AlgY), n - 1)

\* C23 (as claimed): in the corners phase, for each of the four slots, executing
\* y repeatedly brings the slot to front-right: whenever the rotation loop is at
\* its test, some number of y (four make a full turn of the cube) gives a state
\* with front[4] the slot's first colour and right[4] its second. Checked under
\* Spec.
C23_RotationReachesSlot ==
    \A i \in Solvers :
        solvers[i].pc = "cornerRotate" =>
            \E n \in 0..3 : ~slotNotInFront(yTimes(Work(i), n), solvers[i].slot)

---------------------------------------------------------------------------
(* The phases called one at a time on a newly built solver *)

\* solveMiddleLayer: maxAttempts, and the bound of its search loop
middleAttempts == 12
middleSearch == 4

\* solveYellowCross: the bounds of its two loops
yellowLTries == 4
yellowLineTries == 2

\* orientYellowCorners: the bound of its inner loop
orientReps == 4

\* solveMiddleLayer: the check that sets middleSolved
middleSolvedWithTop(s) ==
    \A f \in {"front", "right", "back", "left"} : \A k \in {1, 3, 5} : s[f][k] = s[f][4]

middleSolved(s) ==
    \A f \in {"front", "right", "back", "left"} : \A k \in {3, 5} : s[f][k] = s[f][4]

\* solveYellowCross: isUp(idx)
isUp(s, idx) == s.up[idx] = "Y"

\* solveYellowCross: yellowCount, taken once on entry
yellowCount(s) == Cardinality({idx \in {1, 3, 5, 7} : isUp(s, idx)})

\* solveYellowCross: the test of the first loop
isLShapeLoose(s) == isUp(s, 3) \/ isUp(s, 7)

isLShape(s) == isUp(s, 3) /\ isUp(s, 7)

\* solveYellowCross: the test of the second loop
isLineShape(s) == isUp(s, 3) /\ isUp(s, 5)

\* orientYellowCorners: this.cube.state.up.filter(c => c === 'Y').length
upYellowCount(s) == Cardinality({k \in Idx : s.up[k] = "Y"})

Phases == {"solveWhiteCross", "solveMiddleLayer", "solveYellowCross", "orientYellowCorners"}

\* solver.<phase>() is called on the solver just built
CallPhase(i, phase) ==
    /\ solvers[i].pc = "constructed"
    /\ Goto(i, [solvers[i] EXCEPT !.pc = phase, !.color = 1, !.attempts = 0,
                                  !.found = FALSE, !.i = 0, !.spin = 0])
    /\ UNCHANGED <<engineVars, input, callerVars>>

\* solveMiddleLayer: the head of for (i = 0; i < maxAttempts; i++) and the
\* check of the middle layer
MiddleCheck(i) ==
    LET sv == solvers[i]
    IN  /\ sv.pc = "solveMiddleLayer"
        /\ IF sv.attempts >= middleAttempts \/ middleSolved(Work(i))
           THEN Goto(i, [sv EXCEPT !.pc = "middleReturned"])
           ELSE Goto(i, [sv EXCEPT !.pc = "middleFind", !.i = 0, !.found = FALSE])
        /\ UNCHANGED <<engineVars, input, callerVars>>

\* solveMiddleLayer: one round of the search for (j = 0; j < 4; j++), and
\* after it the branch if (!edgeFound)
MiddleFind(i) ==
    LET sv == solvers[i]
        s == Work(i)
    IN  /\ sv.pc = "middleFind"
        /\ IF sv.i < middleSearch
           THEN IF s.up[7] # "Y" /\ s.front[1] # "Y"
                THEN Goto(i, [sv EXCEPT !.pc = "middleAlign", !.found = TRUE, !.spin = 0])
                ELSE Exec(i, AlgU, [sv EXCEPT !.i = @ + 1])
           ELSE IF s.front[5] # s.front[4] \/ s.right[3] # s.right[4]
                THEN Exec(i, AlgRightInsert,
                          [sv EXCEPT !.pc = "solveMiddleLayer", !.attempts = @ + 1])
                ELSE Exec(i, AlgY, [sv EXCEPT !.pc = "middleAlign", !.spin = 0])
        /\ UNCHANGED <<engineVars, input, callerVars>>

\* solveMiddleLayer: one test of while (front[1] !== front[4]), and after the
\* loop the insertion to the right or to the left
MiddleAlign(i) ==
    LET sv == solvers[i]
        s == Work(i)
    IN  /\ sv.pc = "middleAlign"
        /\ IF s.front[1] # s.front[4]
           THEN Exec(i, AlgU, [sv EXCEPT !.spin = @ + 1])
           ELSE Exec(i, IF s.up[7] = s.right[4] THEN AlgRightInsert ELSE AlgLeftInsert,
                     [sv EXCEPT !.pc = "solveMiddleLayer", !.attempts = @ + 1])
        /\ UNCHANGED <<engineVars, input, callerVars>>

\* solveYellowCross up to its first loop
YellowEntry(i) ==
    LET sv == solvers[i]
        count == yellowCount(Work(i))
    IN  /\ sv.pc = "solveYellowCross"
        /\ IF count = 4
           THEN Goto(i, [sv EXCEPT !.pc = "yellowCrossReturned"])
           ELSE IF count = 0
           THEN Exec(i, AlgYellowCross, [sv EXCEPT !.pc = "yellowL", !.i = 0])
           ELSE Goto(i, [sv EXCEPT !.pc = "yellowL", !.i = 0])
        /\ UNCHANGED <<engineVars, input, callerVars>>

\* solveYellowCross: one round of for (i = 0; i < 4; i++), the L-shape
YellowL(i) ==
    LET sv == solvers[i]
    IN  /\ sv.pc = "yellowL"
        /\ IF sv.i >= yellowLTries
           THEN Goto(i, [sv EXCEPT !.pc = "yellowLine", !.i = 0])
           ELSE IF isLShape(Work(i))
           THEN Exec(i, AlgYellowCross, [sv EXCEPT !.pc = "yellowLine", !.i = 0])
           ELSE Exec(i, AlgU, [sv EXCEPT !.i = @ + 1])
        /\ UNCHANGED <<engineVars, input, callerVars>>

\* solveYellowCross: one round of for (i = 0; i < 2; i++), the line shape
YellowLine(i) ==
    LET sv == solvers[i]
    IN  /\ sv.pc = "yellowLine"
        /\ IF sv.i >= yellowLineTries
           THEN Goto(i, [sv EXCEPT !.pc = "yellowCrossReturned"])
           ELSE IF isLineShape(Work(i))
           THEN Exec(i, AlgYellowCross, [sv EXCEPT !.pc = "yellowCrossReturned"])
           ELSE Exec(i, AlgU, [sv EXCEPT !.i = @ + 1])
        /\ UNCHANGED <<engineVars, input, callerVars>>

\* orientYellowCorners: one test of the while loop and of if (up[8] !== 'Y')
OrientTest(i) ==
    LET sv == solvers[i]
        s == Work(i)
    IN  /\ sv.pc = "orientYellowCorners"
        /\ IF upYellowCount(s) = 9
           THEN Goto(i, [sv EXCEPT !.pc = "orientReturned"])
           ELSE IF s.up[8] # "Y"
           THEN Goto(i, [sv EXCEPT !.pc = "orientCorner", !.i = 0])
           ELSE Exec(i, AlgU, [sv EXCEPT !.spin = @ + 1])
        /\ UNCHANGED <<engineVars, input, callerVars>>

\* orientYellowCorners: one round of for (i = 0; i < 4; i++), and the U after
\* the loop
OrientCorner(i) ==
    LET sv == solvers[i]
    IN  /\ sv.pc = "orientCorner"
        /\ IF sv.i < orientReps /\ (sv.i = 0 \/ Work(i).up[8] # "Y")
           THEN Exec(i, AlgInsertCorner, [sv EXCEPT !.i = @ + 1])
           ELSE Exec(i, AlgU, [sv EXCEPT !.pc = "orientYellowCorners", !.spin = @ + 1])
        /\ UNCHANGED <<engineVars, input, callerVars>>

\* the six facelets solveYellowCross can come to test, each yellow or not
YellowSpots ==
    {<<"up", 1>>, <<"up", 3>>, <<"up", 5>>, <<"up", 7>>, <<"front", 7>>, <<"left", 5>>}

YellowPatterns ==
    { [f \in FaceNames |-> [k \in Idx |->
          IF <<f, k>> \in spots THEN "Y" ELSE solvedState[f][k]]] :
      spots \in SUBSET YellowSpots }

\* the cube held with yellow up and white down
flippedState == [solvedState EXCEPT !.up = face9("Y"), !.down = face9("W")]

\* a state with no white facelet
noWhiteState == [solvedState EXCEPT !.up = face9("Y")]

PhaseInputs ==
    SolveInputs \cup YellowPatterns \cup
    { flippedState, noWhiteState,
      executeAlgorithm(flippedState, <<"D", "'", " ", "R", "'", " ", "D", " ", "R">>),
      executeAlgorithm(flippedState, <<"R", " ", "U">>) }

InitPhases ==
    /\ input \in PhaseInputs
    /\ heap = (CallerRef :> input) @@ (constructorStateRef(1) :> input)
    /\ solvers = [IdleSolvers EXCEPT ![1] =
                     [NoSolver EXCEPT !.pc = "constructed", !.state = constructorStateRef(1)]]
    /\ NewCubeModel
    /\ jsCube = solvedState
    /\ before = solvedState
    /\ lastOp = NoOp
    /\ reps = 0
    /\ IdleCallers

NextPhases ==
    \E i \in {1} :
        \/ \E phase \in Phases : CallPhase(i, phase)
        \/ CrossSearch(i)
        \/ CrossSeat(i)
        \/ MiddleCheck(i)
        \/ MiddleFind(i)
        \/ MiddleAlign(i)
        \/ YellowEntry(i)
        \/ YellowL(i)
        \/ YellowLine(i)
        \/ OrientTest(i)
        \/ OrientCorner(i)

SpecPhases == InitPhases /\ [][NextPhases]_vars

---------------------------------------------------------------------------
(* Claims about the phases, checked under SpecPhases *)

\* rounds of orientYellowCorners' while loop looked ahead from its test
MaxOrientRounds == 6

\* orientYellowCorners: the inner loop from its round i on
RECURSIVE orientCornerReps(_, _)
orientCornerReps(s, i) ==
    IF i < orientReps /\ (i = 0 \/ s.up[8] # "Y")
    THEN orientCornerReps(executeAlgorithm(s, AlgInsertCorner), i + 1)
    ELSE s

\* orientYellowCorners: the body of the while loop
orientRound(s) ==
    executeAlgorithm(IF s.up[8] # "Y" THEN orientCornerReps(s, 0) ELSE s, AlgU)

\* the working state n rounds later, the loop ending where the up face is yellow
RECURSIVE orientRounds(_, _)
orientRounds(s, n) ==
    IF n = 0 \/ upYellowCount(s) = 9 THEN s ELSE orientRounds(orientRound(s), n - 1)

\* C24 (as claimed): from every valid state orientYellowCorners terminates, with
\* R' D' R D applied at most 4 times per corner position between U turns, and
\* ends with all 9 facelets of the up face 'Y': from the loop's test some number
\* of rounds leads to a yellow up face, the inner loop's count stays within 4,
\* and the phase returns only with the up face yellow.
C24_OrientEndsYellow ==
    validateCubeState(input) =>
        \A i \in {1} :
            /\ solvers[i].pc = "orientYellowCorners" =>
                   upYellowCount(orientRounds(Work(i), MaxOrientRounds)) = 9
            /\ solvers[i].pc = "orientCorner" => solvers[i].i <= orientReps
            /\ solvers[i].pc = "orientReturned" => upYellowCount(Work(i)) = 9

\* how often a token occurs in a move log
countToken(log, tok) == Cardinality({k \in 1..Len(log) : log[k] = tok})

\* the applications of F R U R' U' F' a log records: the algorithm has one F
applications(log) == countToken(log, <<"F">>)

\* C25: in one invocation, from every starting state, solveYellowCross applies
\* F R U R' U' F' at most twice.
C25_YellowCrossAtMostTwice ==
    \A i \in {1} :
        solvers[i].pc \in {"yellowL", "yellowLine", "yellowCrossReturned"} =>
            applications(solvers[i].solution) <= 2

\* solveYellowCross has returned after applying the algorithm twice, for the
\* L-shape and for the line
C25_Witness ==
    /\ solvers[1].pc = "yellowCrossReturned"
    /\ isLShape(input)
    /\ applications(solvers[1].solution) = 2

\* the moves logged after the last F2
RECURSIVE sinceSeat(_)
sinceSeat(log) ==
    IF log = <<>> \/ log[Len(log)] = AlgF2 THEN 0
    ELSE 1 + sinceSeat(SubSeq(log, 1, Len(log) - 1))

\* what remains of solveWhiteCross is the less the greater this is
CrossRank(sv) ==
    sv.color * (2 * crossAttempts + 2) + 2 * sv.attempts + (IF sv.found THEN 1 ELSE 0)

\* the cross phase so far: only U and F2 are logged, one F2 for each colour
\* done, at most 20 U for a colour
CrossWithinBounds ==
    \A i \in {1} :
        LET sv == solvers[i]
        IN  /\ sv.pc = "solveWhiteCross" =>
                  /\ \A k \in 1..Len(sv.solution) : sv.solution[k] \in {AlgU, AlgF2}
                  /\ countToken(sv.solution, AlgF2) = sv.color - 1
                  /\ sinceSeat(sv.solution) <= crossAttempts
                  /\ sv.color \in 1..Len(crossColors)
            /\ sv.pc = "cornerRotate" =>
                  /\ \A k \in 1..Len(sv.solution) : sv.solution[k] \in {AlgU, AlgF2}
                  /\ countToken(sv.solution, AlgF2) = Len(crossColors)
                  /\ Len(sv.solution) <= Len(crossColors) * (crossAttempts + 1)
                  /\ sv.solution[Len(sv.solution)] = AlgF2

\* every step of the phase brings its end nearer
CrossAdvances ==
    \A i \in {1} :
        (solvers[i].pc = "solveWhiteCross" /\ solvers'[i].pc = "solveWhiteCross"
            /\ solvers'[i] # solvers[i]) =>
                /\ CrossRank(solvers'[i]) > CrossRank(solvers[i])
                /\ CrossRank(solvers'[i]) < (Len(crossColors) + 1) * (2 * crossAttempts + 2)

\* C26: solveWhiteCross terminates from every state: for each of R, B, O, G in
\* that order it executes U at most 20 times and then F2 exactly once, found or
\* not, so it appends at most 84 moves of which exactly four are F2.
C26_CrossBounded == []CrossWithinBounds /\ [][CrossAdvances]_vars

\* the phase has returned from a state with no white edge: 20 U and one F2 for
\* each colour, 84 moves
C26_Witness ==
    /\ solvers[1].pc = "cornerRotate"
    /\ input = noWhiteState
    /\ Len(solvers[1].solution) = Len(crossColors) * (crossAttempts + 1)
    /\ countToken(solvers[1].solution, AlgU) = Len(crossColors) * crossAttempts

\* the white edge of a side colour is at one of the 12 edge positions
EdgePresent(s, color) == \E p \in EdgePositions : ColorsAt(s, p) = {"W", color}

FourF2 == <<AlgF2, AlgF2, AlgF2, AlgF2>>

\* C27: if at entry each of the edges W-R, W-B, W-O, W-G is at one of the 12
\* edge positions, solveWhiteCross executes no U, appends exactly F2 F2 F2 F2
\* and leaves the working state as it was at entry.
C27_CrossIsFourF2 ==
    (\A color \in {"R", "B", "O", "G"} : EdgePresent(input, color)) =>
        \A i \in {1} :
            /\ solvers[i].pc = "solveWhiteCross" =>
                   /\ countToken(solvers[i].solution, AlgU) = 0
                   /\ solvers[i].solution = SubSeq(FourF2, 1, solvers[i].color - 1)
            /\ solvers[i].pc = "cornerRotate" =>
                   /\ solvers[i].solution = FourF2
                   /\ Work(i) = input

\* the phase has returned on the cube scrambled by F2, whose white-red edge is
\* in the down layer
C27_Witness ==
    /\ solvers[1].pc = "cornerRotate"
    /\ input = executeAlgorithm(solvedState, AlgF2)
    /\ \A color \in {"R", "B", "O", "G"} : EdgePresent(input, color)
    /\ ColorsAt(input, {<<"down", 1>>, <<"front", 7>>}) = {"W", "R"}
    /\ solvers[1].solution = FourF2

\* the eight middle-layer facelets: indices 3 and 5 of the four side faces
MiddleFacelets == {"front", "right", "back", "left"} \X {3, 5}

\* C28: when at entry all eight middle-layer facelets equal their face's centre,
\* solveMiddleLayer returns without executing a move: working state and move
\* log are unchanged.
C28_MiddleSolvedReturns ==
    (\A fk \in MiddleFacelets : input[fk[1]][fk[2]] = input[fk[1]][4]) =>
        \A i \in {1} :
            solvers[i].pc \in {"solveMiddleLayer", "middleFind", "middleAlign",
                               "middleReturned"} =>
                /\ solvers[i].pc \in {"solveMiddleLayer", "middleReturned"}
                /\ solvers[i].solution = <<>>
                /\ solvers[i].nexec = 0
                /\ Work(i) = input

\* solveMiddleLayer has returned on a cube that is not solved, U having left
\* its middle layer in place
C28_Witness ==
    /\ solvers[1].pc = "middleReturned"
    /\ input = executeAlgorithm(solvedState, AlgU)
    /\ ~AllFacesUniform(input)
    /\ solvers[1].solution = <<>>

---------------------------------------------------------------------------
(* One more claim about simplifyMoves, checked under SpecSimplify *)

---------------------------------------------------------------------------
(* The solution player: clicks and the ends of animations *)

\* animations the model lets run at one time, and moves it lets wait in the
\* 3D cube's queue
MaxInFlight == 2
MaxQueue == 2

\* the player's fields stay within the bounds of the model
PlayerWithinBounds(p) ==
    Len(p.inFlight) <= MaxInFlight /\ Len(p.animationQueue) <= MaxQueue

\* the player after a handler, with the handler's name kept in lastCall
called(p, handler) == [p EXCEPT !.lastCall = handler]

\* what a handler of the player leaves as it is
playerFrame == <<engineVars, solverVars, cubeState, currentSolution, page, simp, worker>>

\* a click on Play
PlayAnimation ==
    /\ PlayerWithinBounds(playAnimation(player, currentSolution))
    /\ player' = called(playAnimation(player, currentSolution), "playAnimation")
    /\ UNCHANGED playerFrame

\* a click on Pause
PauseAnimation ==
    /\ PlayerWithinBounds(pauseAnimation(player))
    /\ player' = called(pauseAnimation(player), "pauseAnimation")
    /\ UNCHANGED playerFrame

\* a click on Reset
ResetAnimation ==
    /\ PlayerWithinBounds(resetAnimation(player))
    /\ player' = called(resetAnimation(player), "resetAnimation")
    /\ UNCHANGED playerFrame

\* a click on Next
NextStepClick ==
    /\ PlayerWithinBounds(nextStep(player, currentSolution))
    /\ player' = called(nextStep(player, currentSolution), "nextStep")
    /\ UNCHANGED playerFrame

\* a click on Previous
PrevStepClick ==
    /\ PlayerWithinBounds(prevStep(player, currentSolution))
    /\ player' = called(prevStep(player, currentSolution), "prevStep")
    /\ UNCHANGED playerFrame

\* animateRotation reaches progress 1 for the k-th animation under way:
\* isAnimating = false, the callback, then the next move of the queue
AnimationEnds(k) ==
    LET done == player.inFlight[k]
        others == SubSeq(player.inFlight, 1, k - 1) \o
                  SubSeq(player.inFlight, k + 1, Len(player.inFlight))
        ended == [player EXCEPT !.inFlight = others, !.isAnimating = FALSE]
        calledBack == animationCallback(ended, done, currentSolution)
        shifted == IF Len(calledBack.animationQueue) > 0
                   THEN LET next == Head(calledBack.animationQueue)
                        IN  animateMove([calledBack EXCEPT !.animationQueue = Tail(@)],
                                        next.move, next.callback)
                   ELSE calledBack
    IN  /\ PlayerWithinBounds(shifted)
        /\ player' = called(shifted, "animationEnd")
        /\ UNCHANGED playerFrame

\* the solutions on display and the states they were found for
PlayerSolutions ==
    { <<>>, << <<"R">> >>, << <<"R">>, <<"U", "'">> >>,
      << <<"F", "2">>, <<"U">>, <<"R", "'">> >> }

PlayerStates == {solvedState, executeAlgorithm(solvedState, SexyMove)}

\* solveCube has just displayed a solution
InitPlayer ==
    /\ NewCubeModel
    /\ jsCube = solvedState
    /\ before = solvedState
    /\ lastOp = NoOp
    /\ reps = 0
    /\ input = solvedState
    /\ heap = [r \in {CallerRef} |-> input]
    /\ solvers = IdleSolvers
    /\ cubeState \in PlayerStates
    /\ currentSolution \in PlayerSolutions
    /\ page = NoPage
    /\ simp = NoSimp
    /\ worker = NoWorker
    /\ player = displaySolution(storeScrambled(updateCubeColors(NoPlayer, cubeState),
                                                cubeState),
                                 currentSolution)

NextPlayer ==
    \/ PlayAnimation
    \/ PauseAnimation
    \/ ResetAnimation
    \/ NextStepClick
    \/ PrevStepClick
    \/ \E k \in DOMAIN player.inFlight : AnimationEnds(k)

SpecPlayer == InitPlayer /\ [][NextPlayer]_vars

\* C30 (as claimed): playAnimation called with a non-empty currentSolution,
\* isPlaying false and currentMoveIndex 0 starts playback: isPlaying is true
\* after the call and the animation of the first move is under way, so that
\* without pause or reset the index goes on to currentSolution.length.
C30_PlayStartsPlayback ==
    [][(/\ Len(currentSolution) > 0
        /\ ~player.isPlaying
        /\ player.currentMoveIndex = 0
        /\ player.inFlight = <<>>
        /\ PlayAnimation) =>
            /\ player'.isPlaying
            /\ player'.inFlight # <<>>]_vars

---------------------------------------------------------------------------
(* Manual editing: sticker clicks, undo and redo *)

\* how many entries below the newest one the user of the model goes back
MaxUndoDepth == 1

\* a click on Undo, or Ctrl+Z
Undo ==
    /\ PageIdle
    /\ page.historyIndex > Len(page.stateHistory) - 1 - MaxUndoDepth
    /\ page' = undo(page, cubeState).page
    /\ cubeState' = undo(page, cubeState).cubeState
    /\ player' = IF page.historyIndex > 0
                 THEN updateCubeColors(player, cubeState') ELSE player
    /\ UNCHANGED <<engineVars, solverVars, currentSolution, simp, worker>>

\* a click on Redo, or Ctrl+Y
Redo ==
    /\ PageIdle
    /\ page' = redo(page, cubeState).page
    /\ cubeState' = redo(page, cubeState).cubeState
    /\ player' = IF page.historyIndex < Len(page.stateHistory) - 1
                 THEN updateCubeColors(player, cubeState') ELSE player
    /\ UNCHANGED <<engineVars, solverVars, currentSolution, simp, worker>>

\* the states the editing starts from: the solved cube of the page, a
\* scramble of it, and a detected state with one sticker too many in white
EditStarts ==
    { solvedState,
      executeAlgorithm(solvedState, SexyMove),
      repaint(solvedState, "front", 0, "W") }

InitEdit ==
    /\ NewCubeModel
    /\ jsCube = solvedState
    /\ before = solvedState
    /\ lastOp = NoOp
    /\ reps = 0
    /\ input \in EditStarts
    /\ heap = [r \in {CallerRef} |-> input]
    /\ solvers = IdleSolvers
    /\ cubeState = input
    /\ currentSolution = <<>>
    /\ page = NoPage
    /\ simp = NoSimp
    /\ worker = NoWorker
    /\ player = updateCubeColors(NoPlayer, cubeState)

NextEdit ==
    \/ \E sticker \in ClickedStickers, color \in ClickColors :
          StickerClick(sticker[1], sticker[2], color)
    \/ Undo
    \/ Redo

SpecEdit == InitEdit /\ [][NextEdit]_vars

---------------------------------------------------------------------------
(* Claims about manual editing, checked under SpecEdit *)

\* a step of the click handler that went through to saveState and the change
AcceptedClick ==
    \E sticker \in ClickedStickers, color \in ClickColors :
        /\ clickAccepted(cubeState, sticker[1], sticker[2], color)
        /\ StickerClick(sticker[1], sticker[2], color)

\* C35 (as claimed): after a manual sticker edit, one undo restores cubeState
\* to the value it had immediately before that edit.
C35_UndoRestoresBeforeEdit ==
    [][AcceptedClick => undo(page', cubeState').cubeState = cubeState]_vars

\* C36 (as claimed): whenever an undo changes cubeState, a redo right after it
\* restores cubeState to the value it had just before that undo.
C36_RedoRestoresBeforeUndo ==
    [][(Undo /\ cubeState' # cubeState) =>
           redo(page', cubeState').cubeState = cubeState]_vars

\* stateHistory holds at most MAX_HISTORY entries and historyIndex points into
\* it, or is -1
HistoryWithinBounds ==
    /\ Len(page.stateHistory) <= MAX_HISTORY
    /\ -1 <= page.historyIndex
    /\ page.historyIndex <= Len(page.stateHistory) - 1

\* C37: after any sequence of saveState, undo and redo, stateHistory holds at
\* most MAX_HISTORY entries and -1 <= historyIndex <= stateHistory.length - 1;
\* right after every saveState historyIndex = stateHistory.length - 1, no redo
\* entry being left.
C37_HistoryBounded ==
    /\ []HistoryWithinBounds
    /\ [][AcceptedClick => page'.historyIndex = Len(page'.stateHistory) - 1]_vars

\* the list is full and its oldest entry, the state the editing started from,
\* has been shifted out
C37_Witness ==
    /\ Len(page.stateHistory) = MAX_HISTORY
    /\ page.historyIndex = MAX_HISTORY - 1
    /\ page.stateHistory[1] # input

\* no colour occurs more than 9 times
NoColorOver9(cs) == \A color \in Colors : countColor(cs, color) <= 9

\* C38: from a state in which no colour occurs more than 9 times, a sticker
\* click leaves every centre as it is and makes no colour occur more than 9
\* times; a rejected click changes neither cubeState nor the undo history.
C38_ClicksKeepLimits ==
    NoColorOver9(cubeState) =>
        \A sticker \in ClickedStickers, color \in ClickColors :
            LET after == stickerClick(page, cubeState, sticker[1], sticker[2], color)
            IN  /\ \A f \in FaceNames : after.cubeState[f][4] = cubeState[f][4]
                /\ NoColorOver9(after.cubeState)
                /\ ~clickAccepted(cubeState, sticker[1], sticker[2], color) =>
                      /\ after.cubeState = cubeState
                      /\ after.page.stateHistory = page.stateHistory
                      /\ after.page.historyIndex = page.historyIndex

\* a click was rejected for the limit of its colour after clicks had been
\* accepted, in a state with no colour above 9
C38_Witness ==
    /\ page.alert = "limit"
    /\ Len(page.stateHistory) > 0
    /\ NoColorOver9(cubeState)
    /\ cubeState # input

---------------------------------------------------------------------------
(* Claims about the player under every interleaving of clicks and animation
   ends, checked under SpecPlayer *)

\* currentSolution.slice(0, n)
firstMoves(solution, n) ==
    SubSeq(solution, 1, IF n < Len(solution) THEN n ELSE Len(solution))

\* no animation is running or queued
NoAnimation == player.inFlight = <<>> /\ player.animationQueue = <<>>

\* C31 (as claimed): 0 <= currentMoveIndex <= currentSolution.length in every
\* reachable state, whatever the interleaving of clicks and animation ends.
C31_IndexWithinSolution ==
    /\ 0 <= player.currentMoveIndex
    /\ player.currentMoveIndex <= Len(currentSolution)

\* C32 (as claimed): whenever no animation is running or queued,
\* cubeStateForAnimation is the stored scrambled state with the first
\* currentMoveIndex moves of currentSolution applied.
C32_ShownStateMatchesIndex ==
    (NoAnimation /\ player.hasScrambled) =>
        player.cubeStateForAnimation =
            executeAlgorithm(player.scrambledState,
                             join(firstMoves(currentSolution, player.currentMoveIndex)))

\* C33 (as claimed): at most one face-turn animation runs at a time, also when
\* resetAnimation is called while one is running.
C33_OneAnimationAtATime == Len(player.inFlight) <= 1

\* two requests that wait in the queue q, one behind the other, wait in the
\* other order in the queue r
Overtaken(q, r) ==
    \E i, j \in DOMAIN q : \E a, b \in DOMAIN r :
        /\ i < j /\ q[i] # q[j]
        /\ r[a] = q[j] /\ r[b] = q[i]
        /\ a < b

\* C34 (as claimed): without reset or destroy the requests made while an
\* animation runs are animated in the order they were made: the end of an
\* animation never puts a waiting request behind one that was made after it.
C34_QueueIsFifo ==
    [][\A k \in DOMAIN player.inFlight :
          AnimationEnds(k) =>
              ~Overtaken(player.animationQueue, player'.animationQueue)]_vars

---------------------------------------------------------------------------
(* One more claim about the detection of colours, checked under SpecPage *)

\* C39 (as claimed): detectColorsClientSide returns a detected state only if
\* that state itself passes validation, so processCapturedFaces never puts an
\* invalid detected state into the global cubeState.
C39_DetectedStateIsValid ==
    [][\A detectedState \in DetectedStates :
          ProcessCapturedFaces(detectedState) => validateCubeState(cubeState')]_vars

====
